---- MODULE Spec2Model ----
(***************************************************************************)
(* Model of the streaming HTML tokenizer of rust_tokenizer/src/lib.rs.     *)
(*                                                                         *)
(* The source buffer is a sequence of bytes.  An ASCII byte is written as  *)
(* the one-character string of its character; control bytes are written by *)
(* their names ("NUL", "SOH", ...); the bytes of multi-byte UTF-8 scalars  *)
(* are written "xC3" "xA9" (U+00E9) and "xEF" "xBF" "xBD" (U+FFFD).        *)
(* Positions are 0-based byte offsets, as in the source.                   *)
(* Option<T> is a sequence of length 0 (None) or 1 (Some).                 *)
(***************************************************************************)
EXTENDS Integers, Sequences, FiniteSets, TLC

\* ------------------------------------------------------------------ bytes
UpperSeq ==
  <<"A","B","C","D","E","F","G","H","I","J","K","L","M",
    "N","O","P","Q","R","S","T","U","V","W","X","Y","Z">>
LowerSeq ==
  <<"a","b","c","d","e","f","g","h","i","j","k","l","m",
    "n","o","p","q","r","s","t","u","v","w","x","y","z">>
Upper == {UpperSeq[i] : i \in 1..26}
Lower == {LowerSeq[i] : i \in 1..26}
Digits == {"0","1","2","3","4","5","6","7","8","9"}

\* u8::is_ascii_alphabetic
AsciiAlphabetic == Upper \cup Lower
\* u8::is_ascii_whitespace: space, TAB, LF, FF, CR
AsciiWhitespace == {" ", "\t", "\n", "\f", "\r"}
\* char::is_whitespace restricted to the bytes of the model (str::trim)
Whitespace == {" ", "\t", "\n", "\f", "\r", "VT"}
\* C0 controls other than TAB, LF, FF, CR
InvalidControls ==
  {"NUL","SOH","STX","ETX","EOT","ENQ","ACK","BEL","BS","VT","SO","SI",
   "DLE","DC1","DC2","DC3","DC4","NAK","SYN","ETB","CAN","EM","SUB","ESC",
   "FS","GS","RS","US"}
ReplacementChar == <<"xEF", "xBF", "xBD">>

\* char::to_lowercase on the scalars of the model (U+00E9 is lowercase)
to_lowercase_byte_upto_w(b) ==
  IF b \in Upper \ {"X", "Y", "Z"}
  THEN LowerSeq[CHOOSE i \in 1..26 : UpperSeq[i] = b] ELSE b
to_lowercase_byte(b) ==
  IF b \in Upper THEN LowerSeq[CHOOSE i \in 1..26 : UpperSeq[i] = b] ELSE b
\* str::to_lowercase
to_lowercase(s) ==
  IF \A i \in 1..Len(s) : s[i] \notin Upper THEN s
  ELSE [i \in 1..Len(s) |-> to_lowercase_byte(s[i])]

\* ---------------------------------------------------------------- strings
None == <<>>
Some(x) == <<x>>

\* s.as_bytes()[i]
B(s, i) == s[i + 1]
\* &s[a..b]
Slice(s, a, b) == SubSeq(s, a + 1, b)
\* &s[a..]
SliceFrom(s, a) == SubSeq(s, a + 1, Len(s))
\* s[i..].starts_with(pat)
StartsWithAt(s, i, pat) ==
  /\ i + Len(pat) <= Len(s)
  /\ \A k \in 1..Len(pat) : s[i + k] = pat[k]
\* s.ends_with(pat)
EndsWith(s, pat) ==
  /\ Len(pat) <= Len(s)
  /\ StartsWithAt(s, Len(s) - Len(pat), pat)
SetMax(S) == CHOOSE x \in S : \A y \in S : x >= y
\* s[from..].find(pat).map(|k| from + k); -1 is None
FindFrom(s, start, pat) ==
  LET last == Len(s) - Len(pat)
  IN  IF \E j \in start..last : StartsWithAt(s, j, pat)
      THEN CHOOSE j \in start..last :
             /\ StartsWithAt(s, j, pat)
             /\ \A k \in start..(j - 1) : ~StartsWithAt(s, k, pat)
      ELSE -1
\* Option::unwrap_or for the offsets FindFrom returns
unwrap_or(found, default) == IF found = -1 THEN default ELSE found
\* s.contains(pat)
Contains(s, pat) == FindFrom(s, 0, pat) # -1
\* s.matches(pat).count() for patterns that cannot overlap themselves
CountMatches(s, pat) ==
  Cardinality({j \in 0..(Len(s) - Len(pat)) : StartsWithAt(s, j, pat)})
\* the loop  while i < s.len() && go.contains(s[i]) { i += 1 }
ScanWhile(s, i, go) ==
  IF i >= Len(s) THEN i
  ELSE CHOOSE j \in i..Len(s) :
         /\ j = Len(s) \/ B(s, j) \notin go
         /\ \A k \in i..(j - 1) : B(s, k) \in go
\* the loop  while i < s.len() && !stop.contains(s[i]) { i += 1 }
ScanUntil(s, i, stop) ==
  IF i >= Len(s) THEN i
  ELSE CHOOSE j \in i..Len(s) :
         /\ j = Len(s) \/ B(s, j) \in stop
         /\ \A k \in i..(j - 1) : B(s, k) \notin stop
\* str::trim, str::trim_end_matches('/')
Trim(s) ==
  SubSeq(s, ScanWhile(s, 0, Whitespace) + 1,
         SetMax({0} \cup {j \in 1..Len(s) : s[j] \notin Whitespace}))
TrimEndSlashes(s) ==
  SubSeq(s, 1, SetMax({0} \cup {j \in 1..Len(s) : s[j] # "/"}))
RECURSIVE Flatten(_)
Flatten(ss) == IF ss = <<>> THEN <<>> ELSE Head(ss) \o Flatten(Tail(ss))
\* s.split('/').filter(|p| !p.is_empty()).collect()
RECURSIVE SplitNonEmpty(_, _)
SplitAt(s, sep, k) ==
  IF k = -1 THEN <<s>>
  ELSE IF k = 0 THEN SplitNonEmpty(SliceFrom(s, 1), sep)
  ELSE <<Slice(s, 0, k)>> \o SplitNonEmpty(SliceFrom(s, k + 1), sep)
SplitNonEmpty(s, sep) ==
  IF s = <<>> THEN <<>> ELSE SplitAt(s, sep, FindFrom(s, 0, <<sep>>))
Reverse(s) == [i \in 1..Len(s) |-> s[Len(s) + 1 - i]]

\* str::is_char_boundary: no UTF-8 continuation byte (10xxxxxx) of the
\* scalars of the model at the offset
is_char_boundary(s, i) ==
  \/ i = 0
  \/ i = Len(s)
  \/ i < Len(s) /\ B(s, i) \notin {"xA9", "xBF", "xBD"}
ensure_char_boundary_unchecked(s, p) == IF p >= Len(s) THEN Len(s) ELSE p
ensure_char_boundary(s, p) ==
  IF p >= Len(s) THEN Len(s)
  ELSE IF is_char_boundary(s, p) THEN p
  ELSE CHOOSE j \in p..Len(s) :
         /\ is_char_boundary(s, j)
         /\ \A k \in p..(j - 1) : ~is_char_boundary(s, k)

replace_invalid_characters(text) ==
  IF \A i \in 1..Len(text) : text[i] \notin InvalidControls THEN text
  ELSE Flatten([i \in 1..Len(text) |->
             IF text[i] \in InvalidControls THEN ReplacementChar
             ELSE <<text[i]>>])

\* ----------------------------------------------------------------- tokens
TOKEN_CHARACTER == "Character"
TOKEN_START_TAG == "StartTag"
TOKEN_END_TAG == "EndTag"
TOKEN_DOCTYPE == "DOCTYPE"
TOKEN_COMMENT == "Comment"
STATE_DATA == "DATA"
STATE_RAWTEXT == "RAWTEXT"
STATE_PLAINTEXT == "PLAINTEXT"

\* HTMLToken::new
HTMLToken(type_, data, tag_name, attributes, is_self_closing, needs_rawtext) ==
  [type_ |-> type_, data |-> data, tag_name |-> to_lowercase(tag_name),
   attributes |-> attributes, is_self_closing |-> is_self_closing,
   is_last_token |-> FALSE, needs_rawtext |-> needs_rawtext]
new_character(data) == HTMLToken(TOKEN_CHARACTER, data, <<>>, <<>>, FALSE, FALSE)
new_start_tag(tag_name, attributes, is_self_closing, needs_rawtext) ==
  HTMLToken(TOKEN_START_TAG, <<>>, tag_name, attributes, is_self_closing, needs_rawtext)
new_end_tag(tag_name) == HTMLToken(TOKEN_END_TAG, <<>>, tag_name, <<>>, FALSE, FALSE)
new_comment(data) == HTMLToken(TOKEN_COMMENT, data, <<>>, <<>>, FALSE, FALSE)
new_doctype(data) == HTMLToken(TOKEN_DOCTYPE, data, <<>>, <<>>, FALSE, FALSE)

\* the result of a scanner: the tokenizer after the call, the Option<HTMLToken>
\* it returns, and (for the checks only) the attribute occurrences it parsed
Result(t, tok) == [t |-> t, tok |-> tok, occ |-> <<>>]

\* &s[a..b]: core::str indexing panics unless a <= b <= len and both offsets
\* are on character boundaries
str_index(s, a, b) ==
  a <= b /\ b <= Len(s) /\ is_char_boundary(s, a) /\ is_char_boundary(s, b)
\* the pull unwinds: the caller gets an exception and the tokenizer stays as
\* the panic found it
Panic(t) == Result(t, Some(HTMLToken("Panic", <<>>, <<>>, <<>>, FALSE, FALSE)))

\* --------------------------------------------------------------- entities
\* turbohtml.entities.decode_entities(text, in_attribute): the helper the
\* tokenizer calls for every text that contains '&'.  The named-entity table
\* is cut down to the entries below.
NamedEntities ==
  { [name |-> <<"a","m","p",";">>, value |-> <<"&">>],
    [name |-> <<"a","m","p">>,     value |-> <<"&">>],
    [name |-> <<"l","t",";">>,     value |-> <<"<">>],
    [name |-> <<"l","t">>,         value |-> <<"<">>],
    [name |-> <<"g","t",";">>,     value |-> <<">">>],
    [name |-> <<"g","t">>,         value |-> <<">">>] }
AsciiPrintable ==
  <<" ","!","\"","#","$","%","&","'","(",")","*","+",",","-",".","/",
    "0","1","2","3","4","5","6","7","8","9",":",";","<","=",">","?",
    "@","A","B","C","D","E","F","G","H","I","J","K","L","M","N","O",
    "P","Q","R","S","T","U","V","W","X","Y","Z","[","\\","]","^","_",
    "GRAVE","a","b","c","d","e","f","g","h","i","j","k","l","m","n","o",
    "p","q","r","s","t","u","v","w","x","y","z","{","|","}","~">>
DigitValue(b) ==
  IF b \in Digits THEN (CHOOSE k \in 0..9 : AsciiPrintable[17 + k] = b)
  ELSE 10 + (CHOOSE k \in 0..5 : to_lowercase_byte(b) = LowerSeq[k + 1])
\* the number the digits ds add to acc; numbers past the last code point all
\* stand for the same thing
RECURSIVE NumberValue(_, _, _)
NumberValue(ds, base, acc) ==
  IF ds = <<>> THEN acc
  ELSE NumberValue(Tail(ds), base,
                   IF acc * base + DigitValue(Head(ds)) > 1114112 THEN 1114112
                   ELSE acc * base + DigitValue(Head(ds)))
\* the scalar a numeric reference stands for, as UTF-8
CodePointChars(cp) ==
  IF cp = 0 \/ (cp >= 55296 /\ cp <= 57343) \/ cp > 1114111 THEN ReplacementChar
  ELSE IF cp >= 32 /\ cp <= 126 THEN <<AsciiPrintable[cp - 31]>>
  ELSE IF cp = 9 THEN <<"\t">>
  ELSE IF cp = 10 THEN <<"\n">>
  ELSE IF cp = 233 THEN <<"xC3", "xA9">>
  ELSE IF cp = 65533 THEN ReplacementChar
  ELSE <<"U+" \o ToString(cp)>>
RECURSIVE py_decode_entities(_, _, _)
\* "&#" digits [";"]
numeric_reference(text, i, in_attribute, hex, dstart, dend) ==
  IF dend <= dstart THEN <<"&">> \o py_decode_entities(text, i + 1, in_attribute)
  ELSE CodePointChars(NumberValue(Slice(text, dstart, dend), IF hex THEN 16 ELSE 10, 0))
       \o py_decode_entities(
            text, IF StartsWithAt(text, dend, <<";">>) THEN dend + 1 ELSE dend,
            in_attribute)
numeric_digits(text, i, in_attribute, hex, dstart) ==
  numeric_reference(
    text, i, in_attribute, hex, dstart,
    ScanWhile(text, dstart,
              IF hex
              THEN Digits \cup {"a","b","c","d","e","f","A","B","C","D","E","F"}
              ELSE Digits))
\* "&" name: the longest name of the table; in an attribute a name without
\* ';' is left alone before '=' and alphanumerics
named_best(text, i, in_attribute, best) ==
  IF /\ in_attribute
     /\ best.name[Len(best.name)] # ";"
     /\ i + 1 + Len(best.name) < Len(text)
     /\ B(text, i + 1 + Len(best.name)) \in {"="} \cup Digits \cup Upper \cup Lower
  THEN <<"&">> \o py_decode_entities(text, i + 1, in_attribute)
  ELSE best.value \o py_decode_entities(text, i + 1 + Len(best.name), in_attribute)
named_reference(text, i, in_attribute, cands) ==
  IF cands = {} THEN <<"&">> \o py_decode_entities(text, i + 1, in_attribute)
  ELSE named_best(text, i, in_attribute,
                  CHOOSE e \in cands : \A f \in cands : Len(f.name) <= Len(e.name))
py_decode_entities(text, i, in_attribute) ==
  IF i >= Len(text) THEN <<>>
  ELSE IF B(text, i) # "&"
       THEN <<B(text, i)>> \o py_decode_entities(text, i + 1, in_attribute)
  ELSE IF StartsWithAt(text, i + 1, <<"#">>)
       THEN IF i + 2 < Len(text) /\ B(text, i + 2) \in {"x", "X"}
            THEN numeric_digits(text, i, in_attribute, TRUE, i + 3)
            ELSE numeric_digits(text, i, in_attribute, FALSE, i + 2)
  ELSE named_reference(text, i, in_attribute,
                       {e \in NamedEntities : StartsWithAt(text, i + 1, e.name)})

decode_entities_impl(text, in_attribute) ==
  IF ~Contains(text, <<"&">>) THEN text
  ELSE py_decode_entities(text, 0, in_attribute)
decode_entities(text) == decode_entities_impl(text, FALSE)
decode_entities_in_attribute(text) == decode_entities_impl(text, TRUE)

\* ------------------------------------------------------------- attributes
\* IndexMap as a sequence of <<key, value>> pairs in insertion order
contains_key(m, k) == \E j \in 1..Len(m) : m[j][1] = k
\* IndexMap::insert: a new key is appended, an existing key keeps its place
\* and takes the new value
insert(m, k, v) ==
  IF contains_key(m, k)
  THEN [j \in 1..Len(m) |-> IF m[j][1] = k THEN <<k, v>> ELSE m[j]]
  ELSE Append(m, <<k, v>>)
RECURSIVE InsertAll(_, _)
InsertAll(m, parts) ==
  IF parts = <<>> THEN m
  ELSE InsertAll(insert(m, Head(parts), <<>>), Tail(parts))

\* the result of parse_attributes: the pair the code returns and, for the
\* checks only, every (name, value) it read, in source order
Attributes(is_self_closing, attributes, occ) ==
  [is_self_closing |-> is_self_closing, attributes |-> attributes, occ |-> occ]

\* "first attribute wins": acc is the result built so far
insert_if_absent(acc, name, value) ==
  [acc EXCEPT !.attributes = IF contains_key(@, name) THEN @
                             ELSE Append(@, <<name, value>>),
              !.occ = Append(@, <<name, value>>)]

\* The state machine of parse_attributes, one operator per step of the loop
\* body; i is the byte offset the step starts at.
RECURSIVE attribute_loop(_, _, _)
\* the value read: decode it, store it, go round the loop from i
attribute_value(bytes, name, value, i, acc) ==
  attribute_loop(bytes, i,
                 insert_if_absent(acc, name, decode_entities_in_attribute(value)))
\* a quoted value ends at the closing quote, which is skipped
quoted_value(bytes, name, val_start, val_end, acc) ==
  attribute_value(bytes, name, Slice(bytes, val_start, val_end),
                  IF val_end < Len(bytes) THEN val_end + 1 ELSE val_end, acc)
\* an unquoted value ends at whitespace or '>'
unquoted_value(bytes, name, val_start, val_end, acc) ==
  attribute_value(bytes, name, Slice(bytes, val_start, val_end), val_end, acc)
\* after '=' and the whitespace that follows it
parse_value(bytes, name, i, acc) ==
  IF i >= Len(bytes) THEN attribute_value(bytes, name, <<>>, i, acc)
  ELSE IF B(bytes, i) \in {"\"", "'"}
  THEN quoted_value(bytes, name, i + 1, ScanUntil(bytes, i + 1, {B(bytes, i)}), acc)
  ELSE unquoted_value(bytes, name, i,
                      ScanUntil(bytes, i, AsciiWhitespace \cup {">"}), acc)
\* after the name and the whitespace that follows it
check_for_eq(bytes, name, i, acc) ==
  IF i < Len(bytes) /\ B(bytes, i) = "="
  THEN parse_value(bytes, name, ScanWhile(bytes, i + 1, AsciiWhitespace), acc)
  ELSE attribute_loop(bytes, i, insert_if_absent(acc, name, <<>>))
\* the name runs from name_start to i
parse_name(bytes, name_start, i, acc) ==
  IF i = name_start THEN acc
  ELSE check_for_eq(bytes, to_lowercase(Slice(bytes, name_start, i)),
                    ScanWhile(bytes, i, AsciiWhitespace), acc)
\* after the whitespace and slashes between attributes
next_attribute(bytes, i, acc) ==
  IF i >= Len(bytes) THEN acc
  ELSE parse_name(bytes, i, ScanUntil(bytes, i, AsciiWhitespace \cup {"=", ">", "/"}), acc)
attribute_loop(bytes, i, acc) ==
  IF i >= Len(bytes) THEN acc
  ELSE next_attribute(bytes, ScanWhile(bytes, i, AsciiWhitespace \cup {"/"}), acc)

\* the slash-delimited shortcut: every part becomes a key as written
is_slash_delimited(attr_to_parse) ==
  /\ Contains(attr_to_parse, <<"/">>)
  /\ ~Contains(attr_to_parse, <<" ">>)
  /\ ~Contains(attr_to_parse, <<"=">>)
  /\ ~Contains(attr_to_parse, <<"\"">>)
  /\ ~Contains(attr_to_parse, <<"'">>)
  /\ ~Contains(attr_to_parse, <<"<">>)
slash_delimited_natural(is_self_closing, parts, reversed) ==
  Attributes(is_self_closing, InsertAll(<<>>, parts),
             [j \in 1..Len(parts) |-> <<parts[j], <<>>>>])
slash_delimited(is_self_closing, parts, reversed) ==
  Attributes(is_self_closing,
             InsertAll(<<>>, IF reversed THEN Reverse(parts) ELSE parts),
             [j \in 1..Len(parts) |-> <<parts[j], <<>>>>])
parse_attr_to_parse(is_self_closing, attr_to_parse) ==
  IF attr_to_parse = <<>> THEN Attributes(is_self_closing, <<>>, <<>>)
  ELSE IF is_slash_delimited(attr_to_parse)
  THEN slash_delimited(is_self_closing, SplitNonEmpty(attr_to_parse, "/"),
                       StartsWithAt(attr_to_parse, 0, <<"/", "/">>))
  ELSE attribute_loop(attr_to_parse, 0, Attributes(is_self_closing, <<>>, <<>>))
parse_attributes_any_slash(trimmed) ==
  IF EndsWith(trimmed, <<"/">>)
  THEN parse_attr_to_parse(TRUE, Trim(TrimEndSlashes(trimmed)))
  ELSE parse_attr_to_parse(FALSE, trimmed)
\* the self-closing slash: " /" at the end, or "/" alone
parse_attributes_trimmed(trimmed) ==
  IF EndsWith(trimmed, <<" ", "/">>) \/ trimmed = <<"/">>
  THEN parse_attr_to_parse(TRUE, Trim(TrimEndSlashes(trimmed)))
  ELSE parse_attr_to_parse(FALSE, trimmed)
parse_attributes(attr_string) ==
  IF attr_string = <<>> THEN Attributes(FALSE, <<>>, <<>>)
  ELSE parse_attributes_trimmed(Trim(attr_string))

\* ------------------------------------------------------------ tag scanner
RAWTEXT_ELEMENTS ==
  { <<"s","c","r","i","p","t">>, <<"s","t","y","l","e">>, <<"x","m","p">>,
    <<"i","f","r","a","m","e">>, <<"n","o","e","m","b","e","d">>,
    <<"n","o","f","r","a","m","e","s">>, <<"n","o","s","c","r","i","p","t">>,
    <<"t","e","x","t","a","r","e","a">>, <<"t","i","t","l","e">> }
SCRIPT == <<"s","c","r","i","p","t">>
TEXTAREA == <<"t","e","x","t","a","r","e","a">>
TITLE == <<"t","i","t","l","e">>

EMPTY_CHARACTER == HTMLToken(TOKEN_CHARACTER, <<>>, <<>>, <<>>, FALSE, FALSE)

\* the quote-tracking rescan loop of parse_simple_tag
RECURSIVE rescan_quotes(_, _, _)
rescan_quotes(h, scan, in_quote) ==
  IF scan >= Len(h) THEN [scan |-> scan, in_quote |-> in_quote]
  ELSE IF in_quote # None
  THEN rescan_quotes(h, scan + 1, IF B(h, scan) = in_quote[1] THEN None ELSE in_quote)
  ELSE IF B(h, scan) \in {"\"", "'"} THEN rescan_quotes(h, scan + 1, Some(B(h, scan)))
  ELSE IF B(h, scan) = ">" THEN [scan |-> scan, in_quote |-> in_quote]
  ELSE rescan_quotes(h, scan + 1, in_quote)

\* the RAWTEXT transition of a start tag, written twice in parse_simple_tag
enter_rawtext_any(t, tag_name, is_end_tag) ==
  IF tag_name \in RAWTEXT_ELEMENTS
  THEN [t EXCEPT !.state = STATE_RAWTEXT,
                 !.rawtext_tag = Some(tag_name),
                 !.script_content = IF tag_name = SCRIPT THEN <<>> ELSE @]
  ELSE t
enter_rawtext_state_only(t, tag_name, is_end_tag) ==
  IF ~is_end_tag /\ tag_name \in RAWTEXT_ELEMENTS
  THEN [t EXCEPT !.state = STATE_RAWTEXT,
                 !.script_content = IF tag_name = SCRIPT THEN <<>> ELSE @]
  ELSE t
enter_rawtext(t, tag_name, is_end_tag) ==
  IF ~is_end_tag /\ tag_name \in RAWTEXT_ELEMENTS
  THEN [t EXCEPT !.state = STATE_RAWTEXT,
                 !.rawtext_tag = Some(tag_name),
                 !.script_content = IF tag_name = SCRIPT THEN <<>> ELSE @]
  ELSE t
needs_rawtext_rcdata(tag_name, is_end_tag) ==
  ~is_end_tag /\ tag_name \in {TEXTAREA, TITLE}
needs_rawtext(tag_name, is_end_tag) == ~is_end_tag /\ tag_name = TEXTAREA

\* parse_simple_tag, one operator per step; t keeps pos = start_pos until a
\* token is built.
\* unbalanced quotes, the real '>' found at scan: HTMLToken::new with the
\* attributes of the extended text, for start and end tags alike
unbalanced_closed(t, scan, is_end_tag, tag_name, pa) ==
  [t |-> enter_rawtext([t EXCEPT !.pos = scan + 1], tag_name, is_end_tag),
   tok |-> Some(HTMLToken(IF is_end_tag THEN TOKEN_END_TAG ELSE TOKEN_START_TAG,
                          <<>>, tag_name, pa.attributes, pa.is_self_closing,
                          needs_rawtext(tag_name, is_end_tag))),
   occ |-> pa.occ]
\* unbalanced quotes, after the rescan rs
unbalanced_quotes(t, is_end_tag, tag_name, attr_start, rs) ==
  IF rs.in_quote # None /\ rs.scan >= Len(t.html) THEN
    Result([t EXCEPT !.pos = Len(t.html)], Some(EMPTY_CHARACTER))
  ELSE IF rs.scan >= Len(t.html) THEN
    Result([t EXCEPT !.pos = rs.scan],
           Some(IF is_end_tag THEN new_end_tag(tag_name) ELSE EMPTY_CHARACTER))
  ELSE IF rs.scan > attr_start /\ ~str_index(t.html, attr_start, rs.scan) THEN
    Panic(t)
  ELSE
    unbalanced_closed(t, rs.scan, is_end_tag, tag_name,
                      parse_attributes(IF rs.scan > attr_start
                                       THEN Trim(Slice(t.html, attr_start, rs.scan))
                                       ELSE <<>>))
\* balanced quotes, '>' at attr_end
balanced_closed_skip_two(t, attr_end, is_end_tag, tag_name, pa) ==
  [t |-> enter_rawtext([t EXCEPT !.pos = attr_end + 2], tag_name, is_end_tag),
   tok |-> Some(IF is_end_tag THEN new_end_tag(tag_name)
                ELSE new_start_tag(tag_name, pa.attributes, pa.is_self_closing,
                                   needs_rawtext(tag_name, is_end_tag))),
   occ |-> IF is_end_tag THEN <<>> ELSE pa.occ]
balanced_closed(t, attr_end, is_end_tag, tag_name, pa) ==
  [t |-> enter_rawtext([t EXCEPT !.pos = attr_end + 1], tag_name, is_end_tag),
   tok |-> Some(IF is_end_tag THEN new_end_tag(tag_name)
                ELSE new_start_tag(tag_name, pa.attributes, pa.is_self_closing,
                                   needs_rawtext(tag_name, is_end_tag))),
   occ |-> IF is_end_tag THEN <<>> ELSE pa.occ]
balanced_quotes_suppress(t, is_end_tag, tag_name, attr_end, attr_string) ==
  IF attr_end >= Len(t.html) THEN
    Result([t EXCEPT !.pos = Len(t.html)],
           Some(IF is_end_tag THEN new_end_tag(tag_name) ELSE EMPTY_CHARACTER))
  ELSE IF B(t.html, attr_end) # ">" THEN Result(t, None)
  ELSE balanced_closed(t, attr_end, is_end_tag, tag_name, parse_attributes(attr_string))
\* balanced quotes: the tag runs to EOF, or is malformed, or closes
balanced_quotes(t, is_end_tag, tag_name, attr_end, attr_string) ==
  IF attr_end >= Len(t.html) THEN
    Result([t EXCEPT !.pos = Len(t.html)],
           Some(IF is_end_tag THEN new_end_tag(tag_name)
                ELSE IF Trim(attr_string) = <<>> THEN EMPTY_CHARACTER
                ELSE HTMLToken(TOKEN_CHARACTER, attr_string, <<>>, <<>>, FALSE, FALSE)))
  ELSE IF B(t.html, attr_end) # ">" THEN Result(t, None)
  ELSE balanced_closed(t, attr_end, is_end_tag, tag_name, parse_attributes(attr_string))
\* quotes of one kind in the attribute text, escaped ones not counted
quote_count(attr_string, q) ==
  CountMatches(attr_string, <<q>>) - CountMatches(attr_string, <<"\\", q>>)
count_quotes(t, is_end_tag, tag_name, attr_start, attr_end, attr_string) ==
  IF /\ \/ quote_count(attr_string, "\"") % 2 # 0
        \/ quote_count(attr_string, "'") % 2 # 0
     /\ attr_end < Len(t.html)
  THEN unbalanced_quotes(
         t, is_end_tag, tag_name, attr_start,
         rescan_quotes(t.html, attr_end,
                       Some(IF quote_count(attr_string, "\"") % 2 # 0
                            THEN "\"" ELSE "'")))
  ELSE balanced_quotes(t, is_end_tag, tag_name, attr_end, attr_string)
\* the first pass stopped at attr_end: the next '>' or EOF
attributes_substring(t, is_end_tag, tag_name, attr_start, attr_end) ==
  IF attr_end > attr_start /\ ~str_index(t.html, attr_start, attr_end)
  THEN Panic(t) ELSE
  count_quotes(t, is_end_tag, tag_name, attr_start, attr_end,
               IF attr_end > attr_start
               THEN Trim(Slice(t.html, attr_start, attr_end)) ELSE <<>>)
first_pass(t, is_end_tag, tag_name, attr_start) ==
  attributes_substring(t, is_end_tag, tag_name, attr_start,
                       ScanUntil(t.html, attr_start, {">"}))
\* the tag name runs from tag_name_start to name_end
parse_tag_name(t, is_end_tag, tag_name_start, name_end) ==
  IF /\ name_end # tag_name_start
     /\ ~str_index(t.html, tag_name_start, name_end)
  THEN Panic(t) ELSE
  IF name_end = tag_name_start THEN Result(t, None)
  ELSE first_pass(t, is_end_tag,
                  to_lowercase(Slice(t.html, tag_name_start, name_end)),
                  ScanWhile(t.html, name_end, AsciiWhitespace))
check_for_end_tag(t, is_end_tag, tag_name_start) ==
  parse_tag_name(t, is_end_tag, tag_name_start,
                 ScanUntil(t.html, tag_name_start,
                           {" ", "\t", "\n", "\r", "\f", "/", ">"}))
parse_simple_tag(t) ==
  IF t.pos + 1 < Len(t.html) /\ B(t.html, t.pos + 1) = "/"
  THEN check_for_end_tag(t, TRUE, t.pos + 2)
  ELSE check_for_end_tag(t, FALSE, t.pos + 1)

\* handle_comment: the comment text runs from start to comment_end, and
\* skip bytes of terminator follow it
comment_closed(t, start, comment_end, skip) ==
  IF ~str_index(t.html, start, comment_end) THEN Panic(t) ELSE
  Result([t EXCEPT !.pos = comment_end + skip],
         Some(new_comment(replace_invalid_characters(Slice(t.html, start, comment_end)))))
\* no terminator: the rest of the input, less a trailing "--"
comment_at_eof_untrimmed(t, comment_text) ==
  Result([t EXCEPT !.pos = Len(t.html)], Some(new_comment(comment_text)))
comment_at_eof(t, comment_text) ==
  Result([t EXCEPT !.pos = Len(t.html)],
         Some(new_comment(IF EndsWith(comment_text, <<"-", "-">>)
                          THEN SubSeq(comment_text, 1, Len(comment_text) - 2)
                          ELSE comment_text)))
find_comment_end(t, start, end1, end2) ==
  IF end1 = -1 /\ end2 = -1 /\ ~str_index(t.html, start, Len(t.html))
  THEN Panic(t) ELSE
  IF end1 # -1 THEN comment_closed(t, start, ensure_char_boundary(t.html, end1), 3)
  ELSE IF end2 # -1 THEN comment_closed(t, start, ensure_char_boundary(t.html, end2), 4)
  ELSE comment_at_eof(t, replace_invalid_characters(SliceFrom(t.html, start)))
comment_from(t, start, search_pos) ==
  IF /\ start < Len(t.html) /\ B(t.html, start) = "-"
     /\ start + 1 < Len(t.html) /\ B(t.html, start + 1) = ">"
  THEN Result([t EXCEPT !.pos = start + 2],
              Some(HTMLToken(TOKEN_COMMENT, <<>>, <<>>, <<>>, FALSE, FALSE)))
  ELSE IF ~str_index(t.html, search_pos, Len(t.html)) THEN Panic(t)
  ELSE find_comment_end(t, start,
                        FindFrom(t.html, search_pos, <<"-", "-", ">">>),
                        FindFrom(t.html, search_pos, <<"-", "-", "!", ">">>))
handle_comment(t) ==
  comment_from(t, t.pos + 4, ensure_char_boundary(t.html, t.pos + 4))

CDATA_PREFIX == <<"[", "C", "D", "A", "T", "A", "[">>

\* handle_bogus_comment, the CDATA arm: "]]>" found at inner_end
cdata_closed(t, start_pos, inner_end) ==
  IF ~str_index(t.html, start_pos, inner_end) THEN Panic(t) ELSE
  Result([t EXCEPT !.pos = inner_end + 3],
         Some(HTMLToken(TOKEN_COMMENT,
                        CDATA_PREFIX
                        \o replace_invalid_characters(Slice(t.html, start_pos, inner_end))
                        \o <<"]", "]">>,
                        <<>>, <<>>, FALSE, FALSE)))
\* the CDATA arm, no "]]>": the rest of the input
cdata_at_eof(t, inner) ==
  Result([t EXCEPT !.pos = Len(t.html)],
         Some(new_comment(IF EndsWith(inner, <<"]", "]">>)
                          THEN CDATA_PREFIX \o inner \o <<" ">>
                          ELSE CDATA_PREFIX \o inner)))
cdata_search(t, start_pos, end) ==
  IF ~str_index(t.html, start_pos, Len(t.html)) THEN Panic(t) ELSE
  IF end # -1 THEN cdata_closed(t, start_pos, ensure_char_boundary(t.html, end))
  ELSE cdata_at_eof(t, replace_invalid_characters(SliceFrom(t.html, start_pos)))
\* the other arm: the comment runs from start to the next '>' or to EOF
bogus_closed(t, start, comment_end) ==
  IF ~str_index(t.html, start, comment_end) THEN Panic(t) ELSE
  Result([t EXCEPT !.pos = comment_end + 1],
         Some(new_comment(replace_invalid_characters(Slice(t.html, start, comment_end)))))
bogus_search(t, start, gt_pos) ==
  IF gt_pos # -1 THEN bogus_closed(t, start, ensure_char_boundary(t.html, gt_pos))
  ELSE Result([t EXCEPT !.pos = Len(t.html)],
              Some(new_comment(replace_invalid_characters(SliceFrom(t.html, start)))))
bogus_from(t, start) ==
  IF ~str_index(t.html, start, Len(t.html)) THEN Panic(t) ELSE
  bogus_search(t, start, FindFrom(t.html, start, <<">">>))
handle_bogus_comment_skip_two(t) ==
  IF StartsWithAt(t.html, t.pos, <<"<", "!">> \o CDATA_PREFIX)
  THEN cdata_search(t, ensure_char_boundary(t.html, t.pos + 9),
                    FindFrom(t.html, ensure_char_boundary(t.html, t.pos + 9),
                             <<"]", "]", ">">>))
  ELSE bogus_from(t, ensure_char_boundary(t.html, t.pos + 2))
handle_bogus_comment(t) ==
  IF StartsWithAt(t.html, t.pos, <<"<", "!">> \o CDATA_PREFIX)
  THEN cdata_search(t, ensure_char_boundary(t.html, t.pos + 9),
                    FindFrom(t.html, ensure_char_boundary(t.html, t.pos + 9),
                             <<"]", "]", ">">>))
  ELSE IF StartsWithAt(t.html, t.pos, <<"<", "?">>)
  THEN bogus_from(t, ensure_char_boundary(t.html, t.pos + 1))
  ELSE bogus_from(t, ensure_char_boundary(t.html, t.pos + 2))

COMMENT_OPEN == <<"<", "!", "-", "-">>
eq_exact_case(a, b) == a = b
\* str::eq_ignore_ascii_case
eq_ignore_ascii_case(a, b) == to_lowercase(a) = to_lowercase(b)

\* a '<' that opens no markup: emitted as text, the cursor moves past it
emit_lt_stuck(t, pos) ==
  Result([t EXCEPT !.pos = pos],
         Some(HTMLToken(TOKEN_CHARACTER, <<"<">>, <<>>, <<>>, FALSE, FALSE)))
emit_lt_skip_two(t, pos) ==
  Result([t EXCEPT !.pos = pos + 2],
         Some(HTMLToken(TOKEN_CHARACTER, <<"<">>, <<>>, <<>>, FALSE, FALSE)))
emit_lt(t, pos) ==
  Result([t EXCEPT !.pos = pos + 1],
         Some(HTMLToken(TOKEN_CHARACTER, <<"<">>, <<>>, <<>>, FALSE, FALSE)))

\* try_tag, the DOCTYPE arm: the text runs from search_pos to the next '>'
doctype_closed(t, search_pos, doctype_end) ==
  IF ~str_index(t.html, search_pos, doctype_end) THEN Panic(t) ELSE
  Result([t EXCEPT !.pos = doctype_end + 1],
         Some(new_doctype(Trim(Slice(t.html, search_pos, doctype_end)))))
doctype_search(t, search_pos, gt_pos) ==
  IF ~str_index(t.html, search_pos, Len(t.html)) THEN Panic(t) ELSE
  IF gt_pos # -1
  THEN doctype_closed(t, search_pos, ensure_char_boundary(t.html, gt_pos))
  ELSE Result([t EXCEPT !.pos = Len(t.html)],
              Some(new_doctype(Trim(SliceFrom(t.html, search_pos)))))
\* "<!" followed by the word DOCTYPE in any letter case
is_doctype(html, pos) ==
  /\ pos + 9 <= Len(html)
  /\ B(html, pos + 1) = "!"
  /\ ensure_char_boundary(html, pos + 9) > ensure_char_boundary(html, pos + 2)
  /\ ensure_char_boundary(html, pos + 9) - ensure_char_boundary(html, pos + 2) >= 7
  /\ eq_ignore_ascii_case(Slice(html, ensure_char_boundary(html, pos + 2),
                                ensure_char_boundary(html, pos + 9)),
                          <<"D", "O", "C", "T", "Y", "P", "E">>)
\* the bogus-comment test of try_tag
is_bogus_comment(html, pos) ==
  \/ /\ StartsWithAt(html, pos, <<"<", "/">>)
     /\ pos + 2 < Len(html)
     /\ B(html, pos + 2) \notin AsciiAlphabetic
  \/ StartsWithAt(html, pos, <<"<", "!">>)
  \/ StartsWithAt(html, pos, <<"<", "?">>)
\* the fall-through of try_tag: a tag, or '<' as a character
simple_tag_or_lt(simple, pos) ==
  IF simple.tok # None THEN simple ELSE emit_lt(simple.t, pos)
\* try_tag with the cursor on a character boundary
try_tag_at(t) ==
  IF t.pos >= Len(t.html) \/ ~StartsWithAt(t.html, t.pos, <<"<">>) THEN Result(t, None)
  ELSE IF /\ t.pos + 1 < Len(t.html)
          /\ B(t.html, t.pos + 1) \notin AsciiAlphabetic
          /\ B(t.html, t.pos + 1) \notin {"!", "/", "?"}
  THEN emit_lt(t, t.pos)
  ELSE IF t.pos + 1 >= Len(t.html) THEN emit_lt(t, t.pos)
  ELSE IF /\ t.pos + 9 <= Len(t.html)
          /\ B(t.html, t.pos + 1) = "!"
          /\ ensure_char_boundary(t.html, t.pos + 9)
               - ensure_char_boundary(t.html, t.pos + 2) >= 7
          /\ ~str_index(t.html, ensure_char_boundary(t.html, t.pos + 2),
                        ensure_char_boundary(t.html, t.pos + 9))
  THEN Panic(t)
  ELSE IF is_doctype(t.html, t.pos) THEN
    doctype_search(
      t, ensure_char_boundary(t.html, ScanWhile(t.html, t.pos + 9, AsciiWhitespace)),
      FindFrom(t.html,
               ensure_char_boundary(t.html,
                                    ScanWhile(t.html, t.pos + 9, AsciiWhitespace)),
               <<">">>))
  ELSE IF t.state = STATE_DATA /\ StartsWithAt(t.html, t.pos, COMMENT_OPEN) THEN
    IF t.pos + 4 < Len(t.html) /\ B(t.html, t.pos + 4) = ">"
    THEN Result([t EXCEPT !.pos = t.pos + 5],
                Some(HTMLToken(TOKEN_COMMENT, <<>>, <<>>, <<>>, FALSE, FALSE)))
    ELSE handle_comment(t)
  ELSE IF t.state = STATE_DATA /\ is_bogus_comment(t.html, t.pos)
  THEN handle_bogus_comment(t)
  ELSE simple_tag_or_lt(parse_simple_tag(t), t.pos)
try_tag(t) == try_tag_at([t EXCEPT !.pos = ensure_char_boundary(t.html, t.pos)])

\* the end of the character run that starts at start: the next '<' or EOF
text_run_end_short(html, start) ==
  IF FindFrom(html, start, <<"<">>) = -1 THEN Len(html)
  ELSE FindFrom(html, start, <<"<">>) - 1
text_run_end(html, start) ==
  unwrap_or(FindFrom(html, start, <<"<">>), Len(html))

\* try_text, the run from t.pos to end
text_to_undecoded(t, end) ==
  IF end = t.pos THEN Result(t, None)
  ELSE Result([t EXCEPT !.pos = end],
              Some(new_character(
                     replace_invalid_characters(Slice(t.html, t.pos, end)))))
text_to(t, end) ==
  IF end = t.pos THEN Result(t, None)
  ELSE IF ~str_index(t.html, t.pos, end) THEN Panic(t)
  ELSE Result([t EXCEPT !.pos = end],
              Some(new_character(decode_entities(
                     replace_invalid_characters(Slice(t.html, t.pos, end))))))
try_text(t) ==
  IF t.pos >= Len(t.html) THEN Result(t, None)
  ELSE IF StartsWithAt(t.html, t.pos, <<"<">>) THEN Result(t, None)
  ELSE text_to(t, text_run_end(t.html, t.pos))

\* --------------------------------------------------------- RAWTEXT engine
rcdata_never(rawtext_tag) == FALSE
IsRcdata(rawtext_tag) == rawtext_tag = Some(TITLE) \/ rawtext_tag = Some(TEXTAREA)

\* where the RAWTEXT engines start to look for the next "</"
rawtext_search_from_cursor(h, start) == ensure_char_boundary(h, start)
rawtext_search_start(h, start) == ensure_char_boundary(h, start + 1)

\* the tail shared by both RAWTEXT engines: the text up to the next "</"
rawtext_emit(t, is_script, new_pos, text) ==
  IF text = <<>> THEN Result([t EXCEPT !.pos = new_pos], None)
  ELSE IF is_script THEN
    Result([t EXCEPT !.pos = new_pos, !.script_content = @ \o text],
           Some(new_character(replace_invalid_characters(text))))
  ELSE
    Result([t EXCEPT !.pos = new_pos],
           Some(new_character(IF IsRcdata(t.rawtext_tag)
                              THEN decode_entities(replace_invalid_characters(text))
                              ELSE replace_invalid_characters(text))))
\* the offset of the next "</", or of EOF
next_close(t) ==
  unwrap_or(FindFrom(t.html, rawtext_search_start(t.html, t.pos), <<"<", "/">>),
            Len(t.html))
rawtext_text(t, is_script) ==
  IF \/ ~str_index(t.html, rawtext_search_start(t.html, t.pos), Len(t.html))
     \/ ~str_index(t.html, t.pos, ensure_char_boundary(t.html, next_close(t)))
  THEN Panic(t) ELSE
  rawtext_emit(t, is_script, next_close(t),
               Slice(t.html, t.pos, ensure_char_boundary(t.html, next_close(t))))

\* the test "it's our end tag" of tokenize_regular_rawtext
is_any_end_tag(t, potential_tag, i) ==
  i < Len(t.html) /\ B(t.html, i) = ">"
is_our_end_tag(t, potential_tag, i) ==
  /\ Some(potential_tag) = t.rawtext_tag
  /\ i < Len(t.html)
  /\ B(t.html, i) = ">"

\* "found valid end tag": the text before it, if any, then the end tag
regular_end_tag(t, ended, potential_tag, text_before) ==
  IF text_before # <<>> THEN
    Result([ended EXCEPT !.pending_tokens = Append(@, new_end_tag(potential_tag))],
           Some(new_character(
                  IF IsRcdata(t.rawtext_tag)
                  THEN decode_entities(replace_invalid_characters(text_before))
                  ELSE replace_invalid_characters(text_before))))
  ELSE Result(ended, Some(new_end_tag(potential_tag)))
regular_candidate(t, tag_start, potential_tag, i) ==
  IF is_our_end_tag(t, potential_tag, i)
  THEN regular_end_tag(
         t, [t EXCEPT !.pos = i + 1, !.state = STATE_DATA, !.rawtext_tag = None],
         potential_tag, Slice(t.html, t.pos, tag_start - 2))
  ELSE rawtext_text(t, FALSE)
regular_tag_name_no_slash(t, tag_start, i) ==
  regular_candidate(
    t, tag_start, to_lowercase(Slice(t.html, tag_start, i)),
    ScanWhile(t.html, i, AsciiWhitespace))
\* the tag name runs from tag_start to i; whitespace, slashes and whitespace
\* after it are skipped
regular_tag_name(t, tag_start, i) ==
  regular_candidate(
    t, tag_start, to_lowercase(Slice(t.html, tag_start, i)),
    ScanWhile(t.html,
              ScanWhile(t.html, ScanWhile(t.html, i, AsciiWhitespace), {"/"}),
              AsciiWhitespace))
tokenize_regular_rawtext_ahead(t) ==
  IF FindFrom(t.html, t.pos, <<"<", "/">>) # -1
  THEN regular_tag_name(t, FindFrom(t.html, t.pos, <<"<", "/">>) + 2,
                        ScanWhile(t.html, FindFrom(t.html, t.pos, <<"<", "/">>) + 2,
                                  AsciiAlphabetic))
  ELSE rawtext_text(t, FALSE)
tokenize_regular_rawtext(t) ==
  IF StartsWithAt(t.html, t.pos, <<"<", "/">>)
  THEN regular_tag_name(t, t.pos + 2, ScanWhile(t.html, t.pos + 2, AsciiAlphabetic))
  ELSE rawtext_text(t, FALSE)

\* ----------------------------------------------------- script-data engine
END_SCRIPT == <<"<", "/", "s", "c", "r", "i", "p", "t">>
OPEN_SCRIPT == <<"<", "s", "c", "r", "i", "p", "t">>

\* after[k..] "must start with '<script'" and "must be followed by delimiter"
escaped_script_open_never(after, k) == FALSE
escaped_script_open(after, k) ==
  IF ~StartsWithAt(after, k, OPEN_SCRIPT) THEN FALSE
  ELSE IF k + Len(OPEN_SCRIPT) < Len(after)
       THEN B(after, k + Len(OPEN_SCRIPT)) \in {" ", "/", "\t", "\n", "\r", "\f", ">"}
       ELSE FALSE
escaped_after_open(lower, idx) ==
  IF idx = -1 THEN FALSE
  ELSE escaped_script_open(SliceFrom(lower, idx + 4),
                           ScanWhile(SliceFrom(lower, idx + 4), 0,
                                     {" ", "\t", "\n", "\r", "\f"}))
in_escaped_script_comment(script_content) ==
  IF Contains(to_lowercase(script_content), <<"-", "-", ">">>) THEN FALSE
  ELSE escaped_after_open(to_lowercase(script_content),
                          FindFrom(to_lowercase(script_content), 0, COMMENT_OPEN))

should_honor_never_in_escape(t, script_content) ==
  IF in_escaped_script_comment(to_lowercase(script_content))
  THEN [honor |-> FALSE, suppressed |-> TRUE]
  ELSE [honor |-> TRUE, suppressed |-> t.script_suppressed_end_once]
\* returns the decision and the new script_suppressed_end_once
should_honor_script_end_tag(t, script_content) ==
  IF ~Contains(to_lowercase(script_content), COMMENT_OPEN)
  THEN [honor |-> TRUE, suppressed |-> t.script_suppressed_end_once]
  ELSE IF /\ in_escaped_script_comment(to_lowercase(script_content))
          /\ ~t.script_suppressed_end_once
  THEN [honor |-> FALSE, suppressed |-> TRUE]
  ELSE [honor |-> TRUE, suppressed |-> t.script_suppressed_end_once]

\* the attribute-skipping loop after "</script": stops at '>' outside quotes
\* or at a following "</script"
RECURSIVE script_end_scan(_, _, _)
script_end_scan(h, scan, quote) ==
  IF scan >= Len(h) THEN [scan |-> scan, saw_gt |-> FALSE]
  ELSE IF quote # None
       THEN script_end_scan(h, scan + 1, IF B(h, scan) = quote[1] THEN None ELSE quote)
  ELSE IF B(h, scan) \in {"\"", "'"} THEN script_end_scan(h, scan + 1, Some(B(h, scan)))
  ELSE IF B(h, scan) = ">" THEN [scan |-> scan, saw_gt |-> TRUE]
  ELSE IF B(h, scan) = "<" /\ StartsWithAt(h, scan, END_SCRIPT)
       THEN [scan |-> scan, saw_gt |-> FALSE]
  ELSE script_end_scan(h, scan + 1, quote)

\* "EOF after </script" and "invalid char after </script": the rest as text
script_rest_as_text(t, frag) ==
  Result([t EXCEPT !.pos = Len(t.html), !.script_content = @ \o frag],
         Some(new_character(frag)))
\* "honoring script end tag": the text before it, if any, then the end tag
script_end_tag(ended, potential_tag, text_before) ==
  IF text_before # <<>> THEN
    Result([ended EXCEPT !.pending_tokens = Append(@, new_end_tag(potential_tag))],
           Some(new_character(replace_invalid_characters(text_before))))
  ELSE Result(ended, Some(new_end_tag(potential_tag)))
script_honor(t1, honor, new_pos, potential_tag, text_before) ==
  IF honor
  THEN script_end_tag([t1 EXCEPT !.pos = new_pos,
                                 !.state = STATE_DATA,
                                 !.rawtext_tag = None,
                                 !.script_content = <<>>,
                                 !.script_suppressed_end_once = FALSE],
                      potential_tag, text_before)
  ELSE rawtext_text(t1, TRUE)
\* the complete end tag (saw_gt) and the partial one
script_decide(t, sc, potential_tag, text_before, full_content, sh) ==
  script_honor(
    [t EXCEPT !.script_suppressed_end_once = sh.suppressed],
    IF sc.saw_gt
    THEN /\ sh.honor
         /\ ~(/\ in_escaped_script_comment(to_lowercase(full_content))
              /\ Contains(to_lowercase(SliceFrom(t.html, sc.scan + 1)), END_SCRIPT))
    ELSE sh.honor,
    IF sc.saw_gt THEN sc.scan + 1 ELSE Len(t.html),
    potential_tag, text_before)
script_text_before(t, sc, potential_tag, text_before) ==
  script_decide(t, sc, potential_tag, text_before,
                t.script_content \o text_before,
                should_honor_script_end_tag(t, t.script_content \o text_before))
script_candidate(t, tag_start, i, potential_tag) ==
  IF potential_tag = SCRIPT THEN
    IF i >= Len(t.html)
       \/ B(t.html, i) \notin {" ", "\t", "\n", "\r", "\f", "/", ">"}
    THEN script_rest_as_text(t, replace_invalid_characters(SliceFrom(t.html, t.pos)))
    ELSE script_text_before(t, script_end_scan(t.html, i, None), potential_tag,
                            Slice(t.html, t.pos, tag_start - 2))
  ELSE rawtext_text(t, TRUE)
tokenize_script_content(t) ==
  IF StartsWithAt(t.html, t.pos, <<"<", "/">>)
  THEN script_candidate(
         t, t.pos + 2, ScanWhile(t.html, t.pos + 2, AsciiAlphabetic),
         to_lowercase(Slice(t.html, t.pos + 2,
                            ScanWhile(t.html, t.pos + 2, AsciiAlphabetic))))
  ELSE rawtext_text(t, TRUE)

tokenize_rawtext(t) ==
  IF t.rawtext_tag = Some(SCRIPT) THEN tokenize_script_content(t)
  ELSE tokenize_regular_rawtext(t)

\* ------------------------------------------------------- iterator facade
last_pos(t) == Len(t.html)
\* slf.pos >= slf.last_pos
at_last_pos_strict(t) == t.pos > last_pos(t)
at_last_pos(t) == t.pos >= last_pos(t)
mark_last(tok, is_last) == [tok EXCEPT !.is_last_token = is_last]

\* the STATE_PLAINTEXT arm of __next__ (pos < length)
plaintext_drain_unfiltered(t) ==
  [t |-> [t EXCEPT !.pos = Len(t.html)],
   tok |-> Some(mark_last(new_character(SliceFrom(t.html, t.pos)), TRUE))]
plaintext_drain(t) ==
  [t |-> [t EXCEPT !.pos = Len(t.html)],
   tok |-> Some(mark_last(new_character(
                  replace_invalid_characters(SliceFrom(t.html, t.pos))), TRUE))]

\* what __next__ returns; from is the offset at which the scanner that
\* produced the token started
Ret(r, start) ==
  [t |-> r.t, tok |-> Some(mark_last(r.tok[1], at_last_pos(r.t))),
   occ |-> r.occ, from |-> start]
Terminal(t, start) == [t |-> t, tok |-> None, occ |-> <<>>, from |-> start]

\* RustTokenizer::__next__
RECURSIVE next(_)
\* "yield pending tokens first"
pop_pending(t) ==
  [t |-> [t EXCEPT !.pending_tokens = Tail(@)],
   tok |-> Some(mark_last(Head(t.pending_tokens),
                          at_last_pos(t) /\ Tail(t.pending_tokens) = <<>>)),
   occ |-> <<>>, from |-> t.pos]
\* the STATE_DATA arm: a token, or one byte further and around the loop
data_token(t, data) ==
  IF data.tok # None THEN Ret(data, t.pos)
  ELSE IF data.t.pos < Len(t.html) THEN next([data.t EXCEPT !.pos = @ + 1])
  ELSE Terminal(data.t, t.pos)
\* try_tag()?.or_else(|| try_text())
data_arm(t, tag) ==
  IF tag.tok # None THEN data_token(t, tag) ELSE data_token(t, try_text(tag.t))
rawtext_arm(t, raw) ==
  IF raw.tok # None THEN Ret(raw, t.pos) ELSE Terminal(raw.t, t.pos)
next_scan_first(t) ==
  IF t.pos >= Len(t.html) /\ t.pending_tokens # <<>> THEN pop_pending(t)
  ELSE IF t.pos >= Len(t.html) THEN Terminal(t, t.pos)
  ELSE IF ~str_index(t.html, t.pos, Len(t.html)) THEN Ret(Panic(t), t.pos)
  ELSE IF t.state = STATE_DATA THEN data_arm(t, try_tag(t))
  ELSE IF t.state = STATE_RAWTEXT THEN rawtext_arm(t, tokenize_rawtext(t))
  ELSE IF t.state = STATE_PLAINTEXT
       THEN [t |-> plaintext_drain(t).t, tok |-> plaintext_drain(t).tok,
             occ |-> <<>>, from |-> t.pos]
  ELSE Terminal(t, t.pos)
next(t) ==
  IF t.pending_tokens # <<>> THEN pop_pending(t)
  ELSE IF t.pos >= Len(t.html) THEN Terminal(t, t.pos)
  ELSE IF ~str_index(t.html, t.pos, Len(t.html)) THEN Ret(Panic(t), t.pos)
  ELSE IF t.state = STATE_DATA THEN data_arm(t, try_tag(t))
  ELSE IF t.state = STATE_RAWTEXT THEN rawtext_arm(t, tokenize_rawtext(t))
  ELSE IF t.state = STATE_PLAINTEXT
       THEN [t |-> plaintext_drain(t).t, tok |-> plaintext_drain(t).tok,
             occ |-> <<>>, from |-> t.pos]
  ELSE Terminal(t, t.pos)

\* ------------------------------------------------------------------ state
VARIABLES
  html,                        \* RustTokenizer.html (length = Len(html))
  pos,                         \* RustTokenizer.pos
  state,                       \* RustTokenizer.state
  rawtext_tag,                 \* RustTokenizer.rawtext_tag
  script_content,              \* RustTokenizer.script_content
  script_suppressed_end_once,  \* RustTokenizer.script_suppressed_end_once
  pending_tokens,              \* RustTokenizer.pending_tokens
  op,                          \* the call made last: "new", "next", a hook
  ret,                         \* what the last __next__ returned
  from,                        \* where the scanner of the last __next__ started
  occ,                         \* the attribute occurrences the last __next__ read
  ntokens,                     \* tokens returned so far
  nlast,                       \* tokens returned so far with is_last_token
  nhooks,                      \* hook and setter calls so far
  pre                          \* the tokenizer as the last __next__ found it

vars == <<html, pos, state, rawtext_tag, script_content,
          script_suppressed_end_once, pending_tokens,
          op, ret, from, occ, ntokens, nlast, nhooks, pre>>

Self ==
  [html |-> html, pos |-> pos, state |-> state, rawtext_tag |-> rawtext_tag,
   script_content |-> script_content,
   script_suppressed_end_once |-> script_suppressed_end_once,
   pending_tokens |-> pending_tokens]

\* ----------------------------------------------------------------- inputs
\* an input is a concatenation of at most so many fragments
MaxFrags == 4
MaxHookFrags == 3
MaxAttrFrags == 4
MaxDocFrags == 3
MaxScriptFrags == 3
MaxTitleFrags == 4
MaxMarkupFrags == 3
\* hook and setter calls per run
MaxHooks == 1

XMP == <<"x","m","p">>
Frags ==
  { <<"<">>, <<">">>, <<" ">>, <<"X">>,
    <<"<","x","m","p",">">>, <<"<","/","X","M","P">>,
    <<"<","s","c","r","i","p","t",">">>, <<"<","/","s","c","r","i","p","t">>,
    <<"<","!","-","-">>, <<"<","!","D","O","C","T","Y","P","E">> }
HookFrags ==
  { <<"X">>, <<"NUL">>,
    <<"<","x","m","p",">">>, <<"<","/","X","M","P",">">>,
    <<"<","s","c","r","i","p","t",">">>, <<"<","/","s","c","r","i","p","t",">">> }
AttrFrags ==
  { <<"a">>, <<"A">>, <<"b">>, <<"=">>, <<"=","b">>, <<" ">>, <<"/">>, <<"/","/">>,
    <<"\"">> }

\* markup cut off at every point, multi-byte text, controls and references
DocFrags ==
  { <<"<","p"," ">>, <<"<","/","a"," ">>,
    <<"<","t","e","x","t","a","r","e","a"," ">>,
    <<"<","t","i","t","l","e",">">>, <<"<","/","t","i","t","l","e",">">>,
    <<"<","s","c","r","i","p","t",">">>, <<"<","X","m","p",">">>,
    <<"<","!","-","-">>, <<"<","!","[","C","D","A","T","A","[">>,
    <<">">>, <<"\"">>, <<"\"","x",">","y","\"">>, <<"'","\"",">","'">>,
    <<"X">>, <<"NUL">>, <<"xC3","xA9">>,
    <<"&","a","m","p",";">> }
\* what follows "<script>" or "<script><!--<script>": comment openers and
\* closers, nested openers, end tags complete and cut off
ScriptFrags ==
  { <<"<","!","-","-","<","s","c","r","i","p","t",">">>,
    <<"<","!","-","-">>, <<"<","s","c","r","i","p","t">>, <<"-","-",">">>,
    <<"<","/","s","c","r","i","p","t",">">>, <<"<","/","s","c","r","i","p","t">>,
    <<" ">>, <<"\"">>, <<">">> }
\* what follows "<title>": end tags of this and of another name, with
\* whitespace and slashes before the '>'
TitleFrags ==
  { <<"<","/","t","i","t","l","e">>, <<"<","/","T","i","t","l","e">>,
    <<"<","/","a">>, <<" ">>, <<"/">>, <<">">>, <<"x">> }
\* what follows "<", "</", "<?", "<!", "<!--" or a DOCTYPE prefix: dashes,
\* both comment terminators, '>', text, whitespace and a control
MarkupFrags ==
  { <<"-">>, <<"-","-",">">>, <<"-","-","!",">">>, <<">">>, <<"x">>, <<" ">>,
    <<"NUL">>, <<"?">> }
\* the documents the specification works through
ScriptEscapeDoc ==
  <<"<","s","c","r","i","p","t",">","<","!","-","-","<","s","c","r","i","p","t",">",
    "x","<","/","s","c","r","i","p","t",">","y","<","/","s","c","r","i","p","t",">">>
SvgDoc ==
  <<"<","s","v","g"," ","x","m","l","n","s","=","'","h","t","t","p",":","/","/","x","'">>

Concats(F, n) ==
  {Flatten(fs) : fs \in UNION {[1..k -> F] : k \in 0..n}}


\* RustTokenizer::py_new
Fresh(input) ==
  /\ html = input
  /\ pos = 0
  /\ state = STATE_DATA
  /\ rawtext_tag = None
  /\ script_content = <<>>
  /\ script_suppressed_end_once = FALSE
  /\ pending_tokens = <<>>
  /\ op = "new"
  /\ ret = None
  /\ from = 0
  /\ occ = <<>>
  /\ ntokens = 0
  /\ nlast = 0
  /\ nhooks = 0
  /\ pre = [pos |-> 0, state |-> STATE_DATA, rawtext_tag |-> None,
            pending_tokens |-> <<>>, op |-> "new", ret |-> None]

Init ==
  \/ \E input \in Concats(HookFrags, MaxHookFrags) : Fresh(input)
  \/ Fresh(ScriptEscapeDoc)
InitPull ==
  \/ \E input \in Concats(Frags, MaxFrags) : Fresh(input)
  \/ \E o \in { <<"<">>, <<"<","/">>, <<"<","?">>,
                 <<"<","!">>, <<"<","!","-","-">>,
                 <<"<","!","[","C","D","A","T","A","[">>,
                 <<"<","!","d","o","c","t","y","p","e">>,
                 <<"<","!","D","o","c","T","y","p","e">> },
        b \in Concats(MarkupFrags, MaxMarkupFrags) : Fresh(o \o b)
\* a start tag or an end tag with attribute text, closed or cut off
InitAttr ==
  \E o \in { <<"<","p"," ">>, <<"<","/","P"," ">> },
     b \in Concats(AttrFrags, MaxAttrFrags),
     c \in { <<">">>, <<>> } : Fresh(o \o b \o c)
InitDoc ==
  \/ \E input \in {ScriptEscapeDoc, SvgDoc} : Fresh(input)
  \/ \E input \in Concats(DocFrags, MaxDocFrags) : Fresh(input)
  \/ \E o \in {Slice(ScriptEscapeDoc, 0, 8), Slice(ScriptEscapeDoc, 0, 20)},
        b \in Concats(ScriptFrags, MaxScriptFrags) : Fresh(o \o b)
  \/ \E b \in Concats(TitleFrags, MaxTitleFrags) :
        Fresh(<<"<","t","i","t","l","e",">">> \o b)

\* ---------------------------------------------------------------- actions
Saturate(n, cap) == IF n > cap THEN cap ELSE n

Pull ==
  \E r \in {next(Self)} : LET
      is_token == r.tok # None
  IN  /\ html' = r.t.html
      /\ pos' = r.t.pos
      /\ state' = r.t.state
      /\ rawtext_tag' = r.t.rawtext_tag
      /\ script_content' = r.t.script_content
      /\ script_suppressed_end_once' = r.t.script_suppressed_end_once
      /\ pending_tokens' = r.t.pending_tokens
      /\ op' = "next"
      /\ ret' = r.tok
      /\ from' = r.from
      /\ occ' = r.occ
      /\ ntokens' = IF is_token THEN Saturate(ntokens + 1, Len(html) + 2) ELSE ntokens
      /\ nlast' = IF is_token /\ r.tok[1].is_last_token
                  THEN Saturate(nlast + 1, 2) ELSE nlast
      /\ pre' = [pos |-> pos, state |-> state, rawtext_tag |-> rawtext_tag,
                  pending_tokens |-> pending_tokens, op |-> op, ret |-> ret]
      /\ UNCHANGED nhooks

\* a pull that takes the "text before the end tag" return of a RAWTEXT engine
\* (tokenize_script_content, tokenize_regular_rawtext): the text is returned
\* and the end tag is enqueued.  The engines run only when pop_front found
\* the queue empty.  The text is left open here; in the source it is
\* html[pos..tag_start - 2] with tag_start = pos + 2.
TextBeforeEndTag ==
  /\ pending_tokens = <<>>
  /\ state = STATE_RAWTEXT
  /\ rawtext_tag # None
  /\ \E k \in (pos + 1)..Len(html) :
       \E r \in {Ret(regular_end_tag(
                       Self,
                       [Self EXCEPT !.pos = k, !.state = STATE_DATA,
                                    !.rawtext_tag = None,
                                    !.script_content = <<>>,
                                    !.script_suppressed_end_once = FALSE],
                       rawtext_tag[1], Slice(html, pos, k)), pos)} :
         /\ html' = r.t.html
         /\ pos' = r.t.pos
         /\ state' = r.t.state
         /\ rawtext_tag' = r.t.rawtext_tag
         /\ script_content' = r.t.script_content
         /\ script_suppressed_end_once' = r.t.script_suppressed_end_once
         /\ pending_tokens' = r.t.pending_tokens
         /\ op' = "next"
         /\ ret' = r.tok
         /\ from' = r.from
         /\ occ' = r.occ
         /\ ntokens' = Saturate(ntokens + 1, Len(html) + 2)
         /\ nlast' = IF r.tok[1].is_last_token
                     THEN Saturate(nlast + 1, 2) ELSE nlast
         /\ pre' = [pos |-> pos, state |-> state, rawtext_tag |-> rawtext_tag,
                     pending_tokens |-> pending_tokens, op |-> op, ret |-> ret]
         /\ UNCHANGED nhooks

HookFrame ==
  /\ nhooks' = nhooks + 1
  /\ UNCHANGED <<html, pos, script_suppressed_end_once, pending_tokens,
                 ret, from, occ, ntokens, nlast, pre>>

HookNames == { <<"S","c","r","i","p","t">>, XMP }

StartRawtextKeepCase ==
  \E tag_name \in HookNames :
    /\ nhooks < MaxHooks
    /\ state' = STATE_RAWTEXT
    /\ rawtext_tag' = Some(tag_name)
    /\ script_content' = IF tag_name = SCRIPT THEN <<>> ELSE script_content
    /\ op' = "start_rawtext"
    /\ HookFrame
StartRawtext ==
  \E tag_name \in HookNames :
    /\ nhooks < MaxHooks
    /\ state' = STATE_RAWTEXT
    /\ rawtext_tag' = Some(to_lowercase(tag_name))
    /\ script_content' = IF to_lowercase(tag_name) = SCRIPT THEN <<>> ELSE script_content
    /\ op' = "start_rawtext"
    /\ HookFrame

StartPlaintext ==
  /\ nhooks < MaxHooks
  /\ state' = STATE_PLAINTEXT
  /\ rawtext_tag' = None
  /\ op' = "start_plaintext"
  /\ UNCHANGED script_content
  /\ HookFrame

SetState ==
  \E s \in {"DATA", "RAWTEXT", "PLAINTEXT", "CDATA"} :
    /\ nhooks < MaxHooks
    /\ state' = IF s = "DATA" THEN STATE_DATA
                ELSE IF s = "RAWTEXT" THEN STATE_RAWTEXT
                ELSE IF s = "PLAINTEXT" THEN STATE_PLAINTEXT
                ELSE STATE_DATA
    /\ op' = "set_state"
    /\ UNCHANGED <<rawtext_tag, script_content>>
    /\ HookFrame

SetRawtextTag ==
  \E tag \in {None} \cup {Some(n) : n \in HookNames} :
    /\ nhooks < MaxHooks
    /\ rawtext_tag' = tag
    /\ op' = "set_rawtext_tag"
    /\ UNCHANGED <<state, script_content>>
    /\ HookFrame

Next == Pull \/ StartRawtext \/ StartPlaintext \/ SetState \/ SetRawtextTag

\* pulls interleaved with hook and setter calls
Spec == Init /\ [][Next]_vars
\* pulls only
SpecPull == InitPull /\ [][Pull]_vars
\* pulls only, by a caller that keeps pulling: weak fairness of Pull, that is
\* WF_vars(Pull) with ENABLED <<Pull>>_vars written out.  A pull changes the
\* state unless the last two calls were pulls that returned the terminal
\* marker.
PullFairness ==
  \/ []<>(op = "next" /\ ret = None /\ pre.op = "next" /\ pre.ret = None)
  \/ []<><<Pull>>_vars
SpecPullFair == InitPull /\ [][Pull]_vars /\ PullFairness
\* pulls only, over tags with attribute text
SpecAttr == InitAttr /\ [][Pull]_vars
\* pulls, with the enqueueing returns of the RAWTEXT engines taken whenever
\* an engine could run
SpecPending == Init /\ [][Pull \/ TextBeforeEndTag]_vars
\* pulls only, over the example documents and mixed fragments
SpecDoc == InitDoc /\ [][Pull]_vars

\* ----------------------------------------------------------------- claims
Returned == op = "next" /\ ret # None
HasUpper(s) == \E i \in 1..Len(s) : s[i] \in Upper

\* C1: for every non-empty input the exhausted stream holds exactly one token
\* with is_last_token = true, and no token is returned after it; the empty
\* input yields no token at all.
C1_ExactlyOneLastToken ==
  /\ nlast <= 1
  /\ (nlast = 1 /\ ret # None) => ret[1].is_last_token
  /\ (op = "next" /\ ret = None) => nlast = (IF Len(html) = 0 THEN 0 ELSE 1)
  /\ Len(html) = 0 => ntokens = 0
C1_Witness ==
  op = "next" /\ ret = None /\ nlast = 1 /\ ntokens >= 3 /\ nhooks = 1

\* C2: a returned token has is_last_token = true iff, right after the pull,
\* pos >= length and the pending queue is empty; after such a token, and
\* after the terminal marker that follows it, a pull with no hook call in
\* between returns the terminal marker.
C2_IsLastIffExhausted ==
  /\ Returned =>
       (ret[1].is_last_token <=> (pos >= Len(html) /\ pending_tokens = <<>>))
  /\ ( /\ op = "next"
       /\ pre.op = "next"
       /\ nlast >= 1
       /\ (pre.ret = None \/ pre.ret[1].is_last_token) ) => ret = None
C2_Witness ==
  /\ op = "next" /\ pre.op = "next" /\ ret = None
  /\ pre.ret # None /\ pre.ret[1].is_last_token
  /\ pre.ret[1].type_ = TOKEN_END_TAG

C4_StrictSourceOrder ==
  op = "next" =>
    /\ pos >= pre.pos
    /\ (ret # None /\ pre.pending_tokens = <<>>) =>
         (pos > pre.pos /\ from = pre.pos)
C4_Witness ==
  /\ Returned /\ pre.op = "next" /\ pre.ret # None
  /\ pre.pos > 0 /\ from = pre.pos /\ pos > from /\ pos < Len(html)

C6_RawtextTokens ==
  (Returned /\ pre.state = STATE_RAWTEXT) =>
    \/ /\ ret[1].type_ = TOKEN_CHARACTER
       /\ state = STATE_RAWTEXT
       /\ rawtext_tag = pre.rawtext_tag
    \/ /\ ret[1].type_ = TOKEN_END_TAG
       /\ pre.rawtext_tag = Some(ret[1].tag_name)
       /\ state = STATE_DATA
       /\ rawtext_tag = None
C6_Witness ==
  /\ Returned /\ pre.state = STATE_RAWTEXT /\ pre.rawtext_tag = Some(XMP)
  /\ ret[1].type_ = TOKEN_END_TAG /\ state = STATE_DATA

\* C7: a pull that starts in PLAINTEXT ends in PLAINTEXT; when bytes remain
\* and nothing is pending it returns one Character token, flagged last, whose
\* payload is the rest of the input with the invalid characters replaced, and
\* it moves pos to the end.
C7_PlaintextDrain ==
  (op = "next" /\ pre.state = STATE_PLAINTEXT) =>
    /\ state = STATE_PLAINTEXT
    /\ (pre.pos < Len(html) /\ pre.pending_tokens = <<>>) =>
         /\ ret # None
         /\ ret[1].type_ = TOKEN_CHARACTER
         /\ ret[1].data = replace_invalid_characters(SliceFrom(html, pre.pos))
         /\ ret[1].is_last_token
         /\ pos = Len(html)
C7_Witness ==
  /\ Returned /\ pre.state = STATE_PLAINTEXT /\ pre.pos > 0
  /\ ret[1].data # SliceFrom(html, pre.pos)
  /\ Len(ret[1].data) > 3

\* C8: the attribute names of a StartTag are pairwise distinct once
\* lowercased, and each carries the value of the first occurrence of its name
\* in the attribute text.
C8_FirstOccurrenceWins ==
  (Returned /\ ret[1].type_ = TOKEN_START_TAG) =>
    LET a == ret[1].attributes
    IN  /\ \A i, j \in 1..Len(a) :
             i # j => to_lowercase(a[i][1]) # to_lowercase(a[j][1])
        /\ \A i \in 1..Len(a) :
             \E k \in 1..Len(occ) :
               /\ to_lowercase(occ[k][1]) = to_lowercase(a[i][1])
               /\ \A j \in 1..(k - 1) :
                    to_lowercase(occ[j][1]) # to_lowercase(a[i][1])
               /\ a[i][2] = occ[k][2]

\* C9: no key of the attributes of a StartTag holds an ASCII uppercase
\* letter.
C9_LowercaseKeys ==
  (Returned /\ ret[1].type_ = TOKEN_START_TAG) =>
    \A i \in 1..Len(ret[1].attributes) : ~HasUpper(ret[1].attributes[i][1])

\* C10: the tag_name of a StartTag or EndTag holds no ASCII uppercase
\* letter, and the tag_name of a Character, Comment or DOCTYPE is empty.
C10_LowercaseTagName ==
  Returned =>
    IF ret[1].type_ \in {TOKEN_START_TAG, TOKEN_END_TAG}
    THEN ~HasUpper(ret[1].tag_name)
    ELSE ret[1].tag_name = <<>>
C10_Witness ==
  /\ Returned /\ ret[1].type_ = TOKEN_END_TAG /\ ret[1].tag_name = XMP
  /\ HasUpper(SubSeq(html, pre.pos + 1, pos))

\* C11: no Character token, of any mode or recovery path, holds U+0000 or a
\* C0 control other than TAB, LF, FF, CR.
C11_NoControlsInCharacters ==
  (Returned /\ ret[1].type_ = TOKEN_CHARACTER) =>
    \A i \in 1..Len(ret[1].data) : ret[1].data[i] \notin InvalidControls

\* C12: a token has needs_rawtext = true iff it is a StartTag named textarea;
\* a StartTag of another RAWTEXT element read in DATA switches the tokenizer
\* to RAWTEXT and carries needs_rawtext = false.
C12_NeedsRawtextIffTextarea ==
  Returned =>
    /\ ret[1].needs_rawtext <=>
         (ret[1].type_ = TOKEN_START_TAG /\ ret[1].tag_name = TEXTAREA)
    /\ ( /\ pre.state = STATE_DATA
         /\ ret[1].type_ = TOKEN_START_TAG
         /\ ret[1].tag_name \in RAWTEXT_ELEMENTS \ {TEXTAREA} ) =>
           (state = STATE_RAWTEXT /\ ~ret[1].needs_rawtext)
C12_Witness ==
  /\ Returned /\ ret[1].type_ = TOKEN_START_TAG /\ ret[1].tag_name = TEXTAREA
  /\ ret[1].needs_rawtext /\ ret[1].attributes # <<>> /\ pre.pos > 0

\* C13: an EndTag token has no attributes and is_self_closing = false, also
\* when attribute text or unbalanced quotes follow the tag name.
C13_EndTagBare ==
  (Returned /\ ret[1].type_ = TOKEN_END_TAG) =>
    (ret[1].attributes = <<>> /\ ~ret[1].is_self_closing)

IsToken(type_, data, tag_name) ==
  /\ ret[1].type_ = type_ /\ ret[1].data = data /\ ret[1].tag_name = tag_name

\* C14: <script><!--<script>x</script>y</script> yields StartTag script, one
\* Character token <!--<script>x</script>y, and EndTag script flagged last.
C14_ScriptEscapeExample ==
  (html = ScriptEscapeDoc /\ op = "next") =>
    /\ ntokens <= 3
    /\ (ret = None) => ntokens = 3
    /\ (ret # None /\ ntokens = 1) => IsToken(TOKEN_START_TAG, <<>>, SCRIPT)
    /\ (ret # None /\ ntokens = 2) =>
         IsToken(TOKEN_CHARACTER, Slice(ScriptEscapeDoc, 8, 31), <<>>)
    /\ (ret # None /\ ntokens = 3) =>
         (IsToken(TOKEN_END_TAG, <<>>, SCRIPT) /\ ret[1].is_last_token)
\* C14 as amended: the text comes in two Character tokens, <!--<script>x and
\* </script>y, cut where the suppressed end tag begins.
C14_ScriptEscapeExampleSplit ==
  (html = ScriptEscapeDoc /\ op = "next") =>
    /\ ntokens <= 4
    /\ (ret = None) => ntokens = 4
    /\ (ret # None /\ ntokens = 1) => IsToken(TOKEN_START_TAG, <<>>, SCRIPT)
    /\ (ret # None /\ ntokens = 2) =>
         IsToken(TOKEN_CHARACTER, Slice(ScriptEscapeDoc, 8, 21), <<>>)
    /\ (ret # None /\ ntokens = 3) =>
         IsToken(TOKEN_CHARACTER, Slice(ScriptEscapeDoc, 21, 31), <<>>)
    /\ (ret # None /\ ntokens = 4) =>
         (IsToken(TOKEN_END_TAG, <<>>, SCRIPT) /\ ret[1].is_last_token)
    /\ (ret # None) => (ret[1].is_last_token <=> ntokens = 4)
C14_Witness ==
  html = ScriptEscapeDoc /\ op = "next" /\ ret = None /\ ntokens = 4

\* the quote-tracking scan over the attribute text of the start tag at p ends
\* at EOF inside a quoted value
EofInsideQuote(h, p) ==
  LET name_end == ScanUntil(h, p + 1, {" ", "\t", "\n", "\r", "\f", "/", ">"})
      rs == rescan_quotes(h, ScanWhile(h, name_end, AsciiWhitespace), None)
  IN  /\ p + 1 < Len(h)
      /\ B(h, p) = "<"
      /\ B(h, p + 1) \in AsciiAlphabetic
      /\ rs.scan >= Len(h)
      /\ rs.in_quote # None

\* C15: a start tag cut off by EOF inside a quoted attribute value yields
\* exactly one Character token with empty payload, consumes the input to EOF,
\* and no StartTag; <svg xmlns='http://x' is such an input.
C15_EofInsideQuoteSuppressesTag ==
  ( /\ op = "next"
    /\ pre.state = STATE_DATA
    /\ pre.pending_tokens = <<>>
    /\ EofInsideQuote(html, pre.pos) \/ (html = SvgDoc /\ pre.pos = 0) ) =>
      /\ ret # None
      /\ IsToken(TOKEN_CHARACTER, <<>>, <<>>)
      /\ pos = Len(html)

\* C16: a pull never fails: it returns the terminal marker or a token of one
\* of the five kinds, never the outcome of a slice that is out of range or
\* cuts a character, whatever the input and the mode.
C16_PullNeverFails ==
  (op = "next" /\ ret # None) =>
    ret[1].type_ \in {TOKEN_CHARACTER, TOKEN_START_TAG, TOKEN_END_TAG,
                      TOKEN_COMMENT, TOKEN_DOCTYPE}
C16_Witness ==
  /\ Returned /\ ret[1].type_ = TOKEN_COMMENT /\ pos = Len(html)
  /\ pre.pos > 0 /\ B(html, pre.pos - 1) = "xA9"
  /\ StartsWithAt(html, pre.pos, <<"<","!","[","C","D","A","T","A","[">>)
  /\ B(html, Len(html) - 1) = "xA9"
  /\ ~Contains(html, <<">">>)

\* C17: a non-empty input without '<', tokenized in DATA mode, yields exactly
\* one token: a Character token flagged last whose payload is the input with
\* the invalid characters replaced and then the references decoded in text
\* mode.
C17_TextOnlyInput ==
  (op = "next" /\ html # <<>> /\ ~Contains(html, <<"<">>)) =>
    /\ ntokens = 1
    /\ (pre.op = "new") =>
         /\ ret # None
         /\ IsToken(TOKEN_CHARACTER,
                    decode_entities(replace_invalid_characters(html)), <<>>)
         /\ ret[1].is_last_token
         /\ pos = Len(html)
    /\ (pre.op = "next") => ret = None
C17_Witness ==
  /\ op = "next" /\ pre.op = "next" /\ ret = None /\ ntokens = 1
  /\ ~Contains(html, <<"<">>)
  /\ Contains(html, <<"NUL">>) /\ Contains(html, <<"&","a","m","p",";">>)
  /\ Contains(html, <<"xC3","xA9">>)
  /\ pre.ret[1].data # html

\* C18: start_rawtext(name) sets state = RAWTEXT and rawtext_tag =
\* lowercase(name), and clears script_content when that is script;
\* start_plaintext() sets state = PLAINTEXT and rawtext_tag = none; both leave
\* pos, the source buffer, the pending queue and every other field alone; and
\* the pull after a hook starts at the pos the hook found and runs the engine
\* of the new mode.
C18_HooksChangeModeOnly ==
  /\ [][ /\ (op' \in {"start_rawtext", "start_plaintext"}) =>
              /\ pos' = pos
              /\ html' = html
              /\ pending_tokens' = pending_tokens
              /\ script_suppressed_end_once' = script_suppressed_end_once
         /\ (op' = "start_rawtext") =>
              /\ state' = STATE_RAWTEXT
              /\ rawtext_tag' \in {Some(to_lowercase(n)) : n \in HookNames}
              /\ script_content' =
                   IF rawtext_tag' = Some(SCRIPT) THEN <<>> ELSE script_content
         /\ (op' = "start_plaintext") =>
              /\ state' = STATE_PLAINTEXT
              /\ rawtext_tag' = None
              /\ script_content' = script_content ]_vars
  /\ []( (op = "next" /\ pre.op \in {"start_rawtext", "start_plaintext"}) =>
           /\ from = pre.pos
           /\ (pre.pos < Len(html)) => ret # None
           /\ (ret # None /\ pre.op = "start_plaintext") =>
                /\ IsToken(TOKEN_CHARACTER,
                           replace_invalid_characters(SliceFrom(html, pre.pos)),
                           <<>>)
                /\ state = STATE_PLAINTEXT
           /\ (ret # None /\ pre.op = "start_rawtext") =>
                \/ ret[1].type_ = TOKEN_CHARACTER /\ state = STATE_RAWTEXT
                \/ /\ ret[1].type_ = TOKEN_END_TAG
                   /\ pre.rawtext_tag = Some(ret[1].tag_name)
                   /\ state = STATE_DATA )
C18_Witness ==
  /\ Returned /\ pre.op = "start_rawtext" /\ pre.pos > 0
  /\ pre.rawtext_tag = Some(SCRIPT) /\ pre.ret # None
  /\ pre.ret[1].type_ = TOKEN_END_TAG /\ pre.ret[1].tag_name = XMP
  /\ ret[1].type_ = TOKEN_CHARACTER /\ pos = Len(html)

C20_PosOnCharBoundary ==
  /\ pos \in 0..Len(html)
  /\ is_char_boundary(html, pos)
C20_Witness ==
  /\ op = "next" /\ pos > 0 /\ pos < Len(html)
  /\ B(html, pos - 1) = "xA9"
  /\ B(html, pos) = "<"
  /\ state = STATE_RAWTEXT

\* C21: when the attribute text of a start tag holds a '/' and no
\* whitespace, '=', quote or '<', the attributes are exactly its non-empty
\* '/'-separated segments, each with the empty value; they stand in the order
\* of insertion, which is the reverse of the source order when the text
\* begins with "//" and the source order otherwise.
IsSegment(s, i, j) ==
  /\ i < j
  /\ \A k \in i..(j - 1) : B(s, k) # "/"
  /\ i = 0 \/ B(s, i - 1) = "/"
  /\ j = Len(s) \/ B(s, j) = "/"
Segments(s) == {ij \in (0..Len(s)) \X (0..Len(s)) : IsSegment(s, ij[1], ij[2])}
\* the source offset that decides the place of a key: its first occurrence
\* when inserting in source order, its last when inserting in reverse
FirstAt(s, key) ==
  CHOOSE i \in 0..Len(s) :
    /\ \E ij \in Segments(s) : ij[1] = i /\ Slice(s, i, ij[2]) = key
    /\ \A ij \in Segments(s) : Slice(s, ij[1], ij[2]) = key => ij[1] >= i
LastAt(s, key) ==
  CHOOSE i \in 0..Len(s) :
    /\ \E ij \in Segments(s) : ij[1] = i /\ Slice(s, i, ij[2]) = key
    /\ \A ij \in Segments(s) : Slice(s, ij[1], ij[2]) = key => ij[1] <= i
SlashText(s) ==
  /\ \E k \in 1..Len(s) : s[k] = "/"
  /\ \A k \in 1..Len(s) : s[k] \notin Whitespace \cup {"=", "\"", "'", "<"}
\* the attribute text of the start tag "<p " ... ">" a pull has just returned
AttrText == Trim(Slice(html, 3, pos - 1))
C21_SlashDelimited ==
  (Returned /\ from = 0 /\ ret[1].type_ = TOKEN_START_TAG /\ SlashText(AttrText)) =>
    LET s == AttrText
        a == ret[1].attributes
    IN  /\ {a[m][1] : m \in 1..Len(a)}
             = {Slice(s, ij[1], ij[2]) : ij \in Segments(s)}
        /\ \A m \in 1..Len(a) : a[m][2] = <<>>
        /\ \A m, n \in 1..Len(a) :
             m < n =>
               IF Len(s) >= 2 /\ s[1] = "/" /\ s[2] = "/"
               THEN LastAt(s, a[m][1]) > LastAt(s, a[n][1])
               ELSE FirstAt(s, a[m][1]) < FirstAt(s, a[n][1])
C21_Witness ==
  /\ Returned /\ from = 0 /\ ret[1].type_ = TOKEN_START_TAG
  /\ AttrText = <<"/", "/", "a", "/", "b">>
  /\ ret[1].attributes = << <<<<"b">>, <<>>>>, <<<<"a">>, <<>>>> >>

\* the tokenizer stands, in script mode, at "</script" followed by a
\* delimiter: a candidate end tag; it is complete when the scan over what
\* follows the name finds its '>'
ScriptCandidate ==
  /\ state = STATE_RAWTEXT /\ rawtext_tag = Some(SCRIPT) /\ pending_tokens = <<>>
  /\ StartsWithAt(to_lowercase(html), pos, END_SCRIPT)
  /\ pos + 8 < Len(html)
  /\ B(html, pos + 8) \in {" ", "\t", "\n", "\r", "\f", "/", ">"}
CandidateScan == script_end_scan(html, pos + 8, None)
CompleteCandidate == ScriptCandidate /\ CandidateScan.saw_gt
LaterEndScript ==
  Contains(to_lowercase(SliceFrom(html, CandidateScan.scan + 1)), END_SCRIPT)
EscapeState == in_escaped_script_comment(script_content)
EndsScript ==
  /\ ret' # None /\ ret'[1].type_ = TOKEN_END_TAG /\ ret'[1].tag_name = SCRIPT
  /\ state' = STATE_DATA
StaysScriptText ==
  /\ ret' # None /\ ret'[1].type_ = TOKEN_CHARACTER
  /\ state' = STATE_RAWTEXT /\ rawtext_tag' = Some(SCRIPT)

\* C22 (as stated): in the escape-comment state the first complete
\* "</script>" candidate, the one met while script_suppressed_end_once is
\* unset, is suppressed and sets the flag, and every later complete candidate
\* emits EndTag script and returns the mode to DATA.
C22_OnlyFirstSuppressed ==
  [][(CompleteCandidate /\ EscapeState) =>
       IF script_suppressed_end_once THEN EndsScript
       ELSE StaysScriptText /\ script_suppressed_end_once']_vars
\* C22 (amended): in the escape-comment state the first complete
\* "</script>" candidate, the one met while script_suppressed_end_once is
\* unset, is suppressed and sets the flag; a later complete candidate emits
\* EndTag script and returns the mode to DATA unless another "</script"
\* occurs later in the input, in which case it is text as well.
C22_OnlyFirstSuppressedUnlessLater ==
  [][(CompleteCandidate /\ EscapeState) =>
       IF ~script_suppressed_end_once
       THEN StaysScriptText /\ script_suppressed_end_once'
       ELSE IF LaterEndScript THEN StaysScriptText
       ELSE EndsScript]_vars
C22_Witness ==
  /\ Returned /\ ret[1].type_ = TOKEN_END_TAG /\ state = STATE_DATA
  /\ html = <<"<","s","c","r","i","p","t",">">>
            \o <<"<","!","-","-","<","s","c","r","i","p","t",">">>
            \o <<"<","/","s","c","r","i","p","t",">">>
            \o <<"<","/","s","c","r","i","p","t",">">>

\* C23: a complete "</script>" candidate met in the escape-comment state is
\* text, the mode staying RAWTEXT, if another "</script" occurs later in the
\* input; otherwise it emits EndTag script and returns the mode to DATA.
C23_LastCandidateTerminates ==
  [][(CompleteCandidate /\ EscapeState) =>
       IF LaterEndScript THEN StaysScriptText ELSE EndsScript]_vars

\* C24: in script mode with no "<!--" in the content, at "</script"
\* followed by a byte that is not whitespace, '/' or '>', the pull returns
\* text, stays in script RAWTEXT mode and does not consume a well-formed
\* "</script>" that stands later in the input.
C24_FragmentOnlyIsText ==
  [][(/\ state = STATE_RAWTEXT /\ rawtext_tag = Some(SCRIPT) /\ pending_tokens = <<>>
      /\ StartsWithAt(to_lowercase(html), pos, END_SCRIPT)
      /\ pos + 8 < Len(html)
      /\ B(html, pos + 8) \notin {" ", "\t", "\n", "\r", "\f", "/", ">"}
      /\ ~Contains(to_lowercase(script_content), COMMENT_OPEN)
      /\ FindFrom(to_lowercase(html), pos + 1, END_SCRIPT \o <<">">>) # -1)
     => /\ StaysScriptText
        /\ pos' <= FindFrom(to_lowercase(html), pos + 1, END_SCRIPT \o <<">">>)]_vars

\* C25: when a pull at a "</script" candidate ends the script element, it
\* either consumes a complete end tag, the position moving just past its
\* '>', or the candidate is partial and no '>' stands anywhere after it; no
\* input after the terminating end tag is skipped.
C25_ImplicitEndOnlyAtEof ==
  [][(ScriptCandidate /\ EndsScript) =>
       IF CandidateScan.saw_gt THEN pos' = CandidateScan.scan + 1
       ELSE \A k \in pos..(Len(html) - 1) : B(html, k) # ">"]_vars

\* the escape-comment state as the specification words it: a "<!--", no
\* "-->" after it, and after it, whitespace skipped, "<script" and a delimiter
EscapeCommentState(content) ==
  LET lower == to_lowercase(content)
      idx == FindFrom(lower, 0, COMMENT_OPEN)
  IN  /\ idx # -1
      /\ FindFrom(lower, idx + 4, <<"-", "-", ">">>) = -1
      /\ \E k \in (idx + 4)..Len(lower) :
           /\ \A j \in (idx + 4)..(k - 1) : B(lower, j) \in {" ", "\t", "\n", "\r", "\f"}
           /\ StartsWithAt(lower, k, OPEN_SCRIPT)
           /\ k + 7 < Len(lower)
           /\ B(lower, k + 7) \in {" ", "/", "\t", "\n", "\r", "\f", ">"}

\* C26: at a "</script" candidate the escape-comment state of the
\* accumulated content holds exactly when the content has a "<!--", no "-->"
\* after that "<!--", and after it, whitespace skipped, "<script" and a
\* delimiter; a "-->" before the "<!--" does not cancel the state.
C26_EscapeCommentState ==
  ScriptCandidate => (EscapeState <=> EscapeCommentState(script_content))

\* C27: every step that enters script RAWTEXT mode, a pull returning
\* StartTag script or start_rawtext("script"), leaves script_content empty
\* and script_suppressed_end_once false.
C27_ScriptEntryClears ==
  [][(\/ op' = "start_rawtext" /\ rawtext_tag' = Some(SCRIPT)
      \/ /\ op' = "next" /\ ret' # None
         /\ ret'[1].type_ = TOKEN_START_TAG /\ ret'[1].tag_name = SCRIPT)
     => script_content' = <<>> /\ ~script_suppressed_end_once']_vars

\* the tag at offset p of h: where its attribute text starts, where the
\* first '>' stands, and where a scan that tracks the quotes from the start
\* of the attribute text finds a '>' outside every quoted region
TagNameStart(h, p) == IF B(h, p + 1) = "/" THEN p + 2 ELSE p + 1
TagAttrStart(h, p) ==
  ScanWhile(h, ScanUntil(h, TagNameStart(h, p), {" ", "\t", "\n", "\r", "\f", "/", ">"}),
            AsciiWhitespace)
UnbalancedTagAt(h, p) ==
  /\ p + 2 < Len(h) /\ B(h, p) = "<"
  /\ B(h, TagNameStart(h, p)) \in AsciiAlphabetic
  /\ LET a == TagAttrStart(h, p)
         gt == ScanUntil(h, a, {">"})
         sub == Trim(Slice(h, a, gt))
     IN  /\ gt < Len(h)
         /\ quote_count(sub, "\"") % 2 # 0 \/ quote_count(sub, "'") % 2 # 0

\* C28: a tag whose attribute text up to the first '>' has an odd number of
\* '"' or of "'" ends at the first '>' that lies outside every quoted region,
\* the quotes being tracked as they actually open and close; the position
\* moves just past that '>' and the attributes are those of the text up to
\* it.
C28_RescanTracksOpenQuote ==
  ( /\ op = "next" /\ pre.state = STATE_DATA /\ pre.pending_tokens = <<>>
    /\ UnbalancedTagAt(html, pre.pos)
    /\ rescan_quotes(html, TagAttrStart(html, pre.pos), None).scan < Len(html) ) =>
      LET a == TagAttrStart(html, pre.pos)
          end == rescan_quotes(html, a, None).scan
      IN  /\ ret # None
          /\ ret[1].type_ \in {TOKEN_START_TAG, TOKEN_END_TAG}
          /\ pos = end + 1
          /\ ret[1].type_ = TOKEN_START_TAG =>
               ret[1].attributes = parse_attributes(Trim(Slice(html, a, end))).attributes

\* C29: a start tag with no '>' anywhere after it yields a Character token,
\* never a StartTag, and leaves the mode alone; the payload is the trimmed
\* attribute text, empty when there is none; the position is the length of
\* the input and the token is the last one.
StartTagToEof(h, p) ==
  /\ p + 1 < Len(h) /\ B(h, p) = "<" /\ B(h, p + 1) \in AsciiAlphabetic
  /\ \A k \in p..(Len(h) - 1) : B(h, k) # ">"
ClosesAt(h, p, tag, c) ==
  LET n == p + 2 + Len(tag)
  IN  /\ c < Len(h) /\ n <= c /\ B(h, c) = ">"
      /\ to_lowercase(Slice(h, p + 2, n)) = to_lowercase(tag)
      /\ \E a, b \in n..c :
           /\ a <= b
           /\ \A k \in n..(a - 1) : B(h, k) \in AsciiWhitespace
           /\ \A k \in a..(b - 1) : B(h, k) = "/"
           /\ \A k \in b..(c - 1) : B(h, k) \in AsciiWhitespace

\* C30: in RAWTEXT mode of an element other than script, a pull at "</"
\* returns the EndTag of the element, moves just past the '>' and returns to
\* DATA exactly when the "</" is followed by the element's name in any
\* letter case, whitespace, slashes, whitespace and '>'; at any other "</" it
\* returns Character text and the mode stays RAWTEXT.
C30_RegularEndTag ==
  ( /\ op = "next" /\ pre.state = STATE_RAWTEXT /\ pre.pending_tokens = <<>>
    /\ pre.rawtext_tag # None /\ pre.rawtext_tag # Some(SCRIPT)
    /\ StartsWithAt(html, pre.pos, <<"<", "/">>) ) =>
      /\ ret # None
      /\ IF \E c \in pre.pos..Len(html) : ClosesAt(html, pre.pos, pre.rawtext_tag[1], c)
         THEN /\ IsToken(TOKEN_END_TAG, <<>>, pre.rawtext_tag[1])
              /\ ClosesAt(html, pre.pos, pre.rawtext_tag[1], pos - 1)
              /\ state = STATE_DATA /\ rawtext_tag = None
         ELSE /\ ret[1].type_ = TOKEN_CHARACTER
              /\ state = STATE_RAWTEXT /\ rawtext_tag = pre.rawtext_tag
C30_Witness ==
  /\ op = "next" /\ pre.state = STATE_RAWTEXT /\ pre.rawtext_tag = Some(TITLE)
  /\ ret # None /\ ret[1].type_ = TOKEN_END_TAG /\ state = STATE_DATA
  /\ HasUpper(Slice(html, pre.pos, pos))
  /\ \E k \in pre.pos..(pos - 2) : B(html, k) = " " /\ B(html, k + 1) = "/"

\* C31: a Character token returned by a pull that started in RAWTEXT carries
\* the source text the pull consumed with the invalid characters replaced,
\* and character references are decoded in it exactly when the element is
\* title or textarea; for script, xmp and the other elements it is not decoded.
C31_DecodedOnlyInRcdata ==
  (Returned /\ pre.state = STATE_RAWTEXT /\ ret[1].type_ = TOKEN_CHARACTER) =>
    ret[1].data =
      IF pre.rawtext_tag \in {Some(TITLE), Some(TEXTAREA)}
      THEN decode_entities(replace_invalid_characters(Slice(html, from, pos)))
      ELSE replace_invalid_characters(Slice(html, from, pos))
C31_Witness ==
  /\ Returned /\ pre.state = STATE_RAWTEXT /\ ret[1].type_ = TOKEN_CHARACTER
  /\ pre.rawtext_tag = Some(TITLE)
  /\ Slice(html, from, pos) = <<"NUL", "&","a","m","p",";">>
  /\ ret[1].data = ReplacementChar \o <<"&">>

\* a pull that started in DATA with the cursor at "<!--"
CommentScan == Returned /\ pre.state = STATE_DATA /\ StartsWithAt(html, pre.pos, <<"<","!","-","-">>)
\* the comment is pay, and the pull consumed up to offset e
IsComment(pay, e) == IsToken(TOKEN_COMMENT, pay, <<>>) /\ pos = e
\* the text between "<!--" and the first occurrence of the terminator term,
\* with the cursor just past that occurrence
EndsAtFirst(term) ==
  LET e == FindFrom(html, pre.pos + 4, term)
  IN  /\ e # -1
      /\ IsComment(replace_invalid_characters(Slice(html, pre.pos + 4, e)), e + Len(term))
CommentRemainder == replace_invalid_characters(SliceFrom(html, pre.pos + 4))

\* C32: a comment scanned in DATA is empty for "<!-->" and "<!--->", which
\* are consumed exactly; otherwise it is the filtered text between "<!--" and
\* a terminator "-->" or "--!>" with pos just after that terminator; with no
\* terminator it is the rest of the input less one trailing "--", pos = length.
C32_CommentPayload ==
  CommentScan =>
    IF StartsWithAt(html, pre.pos + 4, <<">">>) THEN IsComment(<<>>, pre.pos + 5)
    ELSE IF StartsWithAt(html, pre.pos + 4, <<"-",">">>) THEN IsComment(<<>>, pre.pos + 6)
    ELSE IF \/ FindFrom(html, pre.pos + 4, <<"-","-",">">>) # -1
            \/ FindFrom(html, pre.pos + 4, <<"-","-","!",">">>) # -1
    THEN EndsAtFirst(<<"-","-",">">>) \/ EndsAtFirst(<<"-","-","!",">">>)
    ELSE IsComment(IF EndsWith(CommentRemainder, <<"-","-">>)
                   THEN SubSeq(CommentRemainder, 1, Len(CommentRemainder) - 2)
                   ELSE CommentRemainder, Len(html))
C32_Witness ==
  /\ CommentScan
  /\ SliceFrom(html, pre.pos) = <<"<","!","-","-","NUL","-","-">>
  /\ IsComment(ReplacementChar, Len(html))

\* C33: a comment ends at the earliest terminator: when "--!>" occurs before
\* any "-->", the payload stops at that "--!>" and the pull consumes no more
\* than it.
C33_EarliestTerminator ==
  LET e1 == FindFrom(html, pre.pos + 4, <<"-","-",">">>)
      e2 == FindFrom(html, pre.pos + 4, <<"-","-","!",">">>)
  IN  ( /\ CommentScan
        /\ ~StartsWithAt(html, pre.pos + 4, <<">">>)
        /\ ~StartsWithAt(html, pre.pos + 4, <<"-",">">>)
        /\ e2 # -1 /\ (e1 = -1 \/ e2 < e1) ) =>
        EndsAtFirst(<<"-","-","!",">">>)

\* the cursor of a pull in DATA is at "<!" + the word DOCTYPE in any case
DoctypeAt ==
  /\ pre.pos + 9 <= Len(html)
  /\ to_lowercase(Slice(html, pre.pos, pre.pos + 9))
       = <<"<","!","d","o","c","t","y","p","e">>
\* the comment runs from offset start to the next '>' or to EOF
RunsToGt(start) ==
  LET e == FindFrom(html, start, <<">">>)
  IN  IF e # -1
      THEN IsComment(replace_invalid_characters(Slice(html, start, e)), e + 1)
      ELSE IsComment(replace_invalid_characters(SliceFrom(html, start)), Len(html))
BogusEndTag ==
  /\ StartsWithAt(html, pre.pos, <<"<","/">>)
  /\ pre.pos + 2 < Len(html) /\ B(html, pre.pos + 2) \notin AsciiAlphabetic
BogusDeclaration ==
  /\ StartsWithAt(html, pre.pos, <<"<","!">>)
  /\ ~StartsWithAt(html, pre.pos, <<"<","!","-","-">>)
  /\ ~DoctypeAt
CdataAt == StartsWithAt(html, pre.pos, <<"<","!","[","C","D","A","T","A","[">>)

\* C34 as stated: in DATA, "</" + non-letter, "<!" that opens neither a
\* comment nor a DOCTYPE, and "<?" each give one Comment that runs to the next
\* '>' or EOF, from after the two leading characters, for "<?" from after '<'.
C34_BogusComment ==
  (Returned /\ pre.state = STATE_DATA) =>
    /\ (BogusEndTag \/ BogusDeclaration) => RunsToGt(pre.pos + 2)
    /\ StartsWithAt(html, pre.pos, <<"<","?">>) => RunsToGt(pre.pos + 1)
\* C34: the same, for every "<!" other than "<![CDATA[", which has a rule of
\* its own.
C34_BogusCommentNotCdata ==
  (Returned /\ pre.state = STATE_DATA) =>
    /\ (BogusEndTag \/ (BogusDeclaration /\ ~CdataAt)) => RunsToGt(pre.pos + 2)
    /\ StartsWithAt(html, pre.pos, <<"<","?">>) => RunsToGt(pre.pos + 1)
C34_Witness ==
  /\ Returned /\ pre.state = STATE_DATA
  /\ SliceFrom(html, pre.pos) = <<"<","?","x","?",">">>
  /\ IsComment(<<"?","x","?">>, Len(html))

\* C35: in DATA, "<!" + DOCTYPE in any letter case gives one DOCTYPE token
\* whose payload is the trimmed text between those 9 bytes and the next '>',
\* with pos just past the '>'; without a '>' the trimmed rest, pos = length.
C35_Doctype ==
  LET e == FindFrom(html, pre.pos + 9, <<">">>)
  IN  (Returned /\ pre.state = STATE_DATA /\ DoctypeAt) =>
        /\ ret[1].type_ = TOKEN_DOCTYPE /\ ret[1].tag_name = <<>>
        /\ IF e # -1
           THEN ret[1].data = Trim(Slice(html, pre.pos + 9, e)) /\ pos = e + 1
           ELSE ret[1].data = Trim(SliceFrom(html, pre.pos + 9)) /\ pos = Len(html)
C35_Witness ==
  /\ Returned /\ pre.state = STATE_DATA
  /\ html = <<"<","!","D","o","c","T","y","p","e"," ","x",">">>
  /\ ret[1].type_ = TOKEN_DOCTYPE /\ ret[1].data = <<"x">> /\ pos = Len(html)

\* C36: a StartTag is self-closing exactly when its trimmed attribute text is
\* "/" or ends with a space and "/"; a "/" right after a value or a quote
\* does not count; the attributes of a self-closing tag are those of the
\* same text without its final "/", and no attribute is named by a "/".
C36_SelfClosing ==
  (Returned /\ from = 0 /\ ret[1].type_ = TOKEN_START_TAG) =>
    LET s == AttrText
        a == ret[1].attributes
    IN  /\ ret[1].is_self_closing <=>
             (s = <<"/">> \/ EndsWith(s, <<" ", "/">>))
        /\ ret[1].is_self_closing =>
             a = parse_attributes(SubSeq(s, 1, Len(s) - 1)).attributes
        /\ \A m \in 1..Len(a) : \A k \in 1..Len(a[m][1]) : a[m][1][k] # "/"
C36_Witness ==
  /\ Returned /\ from = 0 /\ ret[1].type_ = TOKEN_START_TAG
  /\ AttrText = <<"a", "=", "b", " ", "/">>
  /\ ret[1].is_self_closing
  /\ ret[1].attributes = << <<<<"a">>, <<"b">>>> >>

\* C37: in DATA a '<' at the end of the input, or before a character that is
\* not an ASCII letter, '!', '/' or '?', is returned as the Character "<" and
\* the cursor moves one byte, so the next pull starts right after it.
C37_LoneLessThan ==
  ( /\ Returned /\ pre.state = STATE_DATA
    /\ StartsWithAt(html, pre.pos, <<"<">>)
    /\ \/ pre.pos + 1 = Len(html)
       \/ B(html, pre.pos + 1) \notin AsciiAlphabetic \cup {"!", "/", "?"} ) =>
    /\ IsToken(TOKEN_CHARACTER, <<"<">>, <<>>)
    /\ pos = pre.pos + 1 /\ from = pre.pos
C37_Witness ==
  /\ Returned /\ pre.state = STATE_DATA
  /\ SliceFrom(html, pre.pos) = <<"<", "-", "-", ">">>
  /\ IsToken(TOKEN_CHARACTER, <<"<">>, <<>>) /\ pos = pre.pos + 1

\* C38: with pulls alone the mode is RAWTEXT exactly when rawtext_tag is set,
\* a set rawtext_tag is one of the nine RAWTEXT element names in lowercase,
\* and the mode is DATA, RAWTEXT or PLAINTEXT.
C38_ModeTagAgree ==
  /\ state \in {STATE_DATA, STATE_RAWTEXT, STATE_PLAINTEXT}
  /\ state = STATE_RAWTEXT <=> rawtext_tag # None
  /\ rawtext_tag # None =>
       /\ rawtext_tag[1] \in RAWTEXT_ELEMENTS
       /\ ~HasUpper(rawtext_tag[1])
C38_Witness ==
  /\ Returned /\ pre.state = STATE_DATA
  /\ StartsWithAt(html, pre.pos, <<"<","X","m","p",">">>)
  /\ state = STATE_RAWTEXT /\ rawtext_tag = Some(XMP)

\* C39: a pull that ends RAWTEXT started with the cursor at the "</" of the
\* end tag and returns that EndTag itself; no state reached has a token in
\* the pending queue, so a pull hands out one token at most and defers none.
C39_NothingPending ==
  /\ pending_tokens = <<>>
  /\ (Returned /\ pre.state = STATE_RAWTEXT /\ state = STATE_DATA) =>
       /\ StartsWithAt(html, pre.pos, <<"<", "/">>)
       /\ from = pre.pos
       /\ ret[1].type_ = TOKEN_END_TAG /\ Some(ret[1].tag_name) = pre.rawtext_tag
C39_Witness ==
  /\ Returned /\ pre.state = STATE_RAWTEXT /\ state = STATE_DATA
  /\ pre.op = "next" /\ pre.ret # None /\ pre.ret[1].type_ = TOKEN_CHARACTER
  /\ ret[1].type_ = TOKEN_END_TAG /\ ret[1].tag_name = TITLE
  /\ pending_tokens = <<>>
====
